---- MODULE Spec2Model ----
(***************************************************************************)
(* Store-and-forward uplink of the bicycle speedometer.                    *)
(*                                                                         *)
(* The model follows application/raspberry-pi/firebase_client.py           *)
(* (FirebaseClient) and application/raspberry-pi/cellular_data_client.py   *)
(* (CellularDataClient): the sqlite table sensor_data, the sampling loop   *)
(* data_collection_loop and the drain sync_buffered_data.                  *)
(***************************************************************************)
EXTENDS Integers, Sequences, FiniteSets, TLC

(***************************************************************************)
(* Bounds of the model.                                                    *)
(***************************************************************************)
\* rows the storage can hold; a further INSERT fails (disk full)
MaxRows == 2
\* the wall clock, in seconds, saturates here
MaxClock == 1
\* process crashes (power loss) followed by a restart
MaxCrashes == 1
\* the configured retry_attempts ranges over 1..MaxRetryAttempts
MaxRetryAttempts == 3
\* the count of failed attempts per reading saturates here
MaxFailures == 3
\* the power key of the modem is pulsed at most MaxPulses times
MaxPulses == 4
\* the timeout of a command is 1..MaxTimeout polling slices
MaxTimeout == 2
\* the wait before the first poll is 1..MaxWait polling slices
MaxWait == 2
\* the modem sends at most MaxTokens tokens in answer to one command
MaxTokens == 2
\* number of tasks that call the ModemManager
MaxTasks == 2
\* at most MaxLate +HTTPACTION lines of a session arrive after the read that
\* waited for them
MaxLate == 1
\* the hall sensor is followed for MaxNow polling periods of 10 ms
MaxNow == 14
\* one round of the polling loop takes 1..MaxStep periods (time.sleep(0.01)
\* lasts at least 10 ms)
MaxStep == 2
\* the sampling window asked for is 0..MaxDuration periods long
MaxDuration == 3

(***************************************************************************)
(* Program constants.                                                      *)
(***************************************************************************)
\* "retry_count < 5" of the SELECT in FirebaseClient.sync_buffered_data
RETRY_CEILING == 5
\* "LIMIT 10" of the same SELECT
BATCH_LIMIT == 10

Clients == {"firebase", "cellular"}

VARIABLES
    client,          \* which of the two client classes runs
    retry_attempts,  \* config["retry_attempts"] as loaded by load_config
    db,              \* committed rows of sensor_data; the row id is the index
    tx,              \* uncommitted write of the open sqlite connection
    pc,              \* position of the process in data_collection_loop
    data,            \* the reading returned by monitor_speed
    batch,           \* unsent_data: row snapshots fetched by the drain
    k,               \* index of the current row of the drain's for loop
    outcomes,        \* results of send_to_firebase in the last drain, in order
    clock,           \* wall clock (seconds), source of CURRENT_TIMESTAMP
    acked,           \* row ids whose reading the collector has acknowledged
    last,            \* the latest delivery attempt of the current loop cycle
    enqueued,        \* readings for which store_data_locally ran to its end
    crashes,         \* number of crashes so far
    failures,        \* failed delivery attempts per row, for the rows followed
    sim,             \* the modem session: position, loop counters, wire
    cmd,             \* one send_at_command call: arguments, locals, clock
    mm,              \* ModemManager: its lock and the tasks that call it
    sms,             \* one send_sms call: position, attempt, writes, answers
    ft,              \* main() of firstTry.py: modem set-up, failure counter
    hall             \* the hall sensor: pin, pulse count, sampling window

\* the state of the queue and of the sampling loop
qvars == <<client, retry_attempts, db, tx, pc, data, batch, k, outcomes,
           clock, acked, last, enqueued, crashes, failures>>

vars == <<qvars, sim, cmd, mm, sms, ft, hall>>

NoTx == [op |-> "none", id |-> 0, created_at |-> 0]
NoData == [reading |-> 0, stored |-> FALSE]
NoAttempt == [row |-> 0, ok |-> FALSE, kind |-> "none", cause |-> "none"]

\* the modem session before anything has run
SimOff ==
    [mpc |-> "power", n |-> 0, attempt |-> 0, test |-> 0, pulses |-> 0,
     wire |-> <<>>, registered |-> FALSE, fault |-> "none",
     result |-> "none", reply |-> "none", cpin |-> "none", creg |-> "none",
     owed |-> "none", inbuf |-> {}, stale |-> {}, late |-> 0]

\* the modem session after init_sim_module; the queue model abstracts the
\* modem into the outcome of Attempt and leaves the session here
SimReady == [SimOff EXCEPT !.mpc = "idle", !.pulses = 1]

\* no value returned yet
NoReturn == [shape |-> "none", tag |-> "none", text |-> <<>>]

\* a send_at_command of engine e that has not started
CmdIdle(e) ==
    [engine |-> e, epc |-> "idle", timeout |-> 1, wait |-> 1, expect |-> "OK",
     now |-> 0, start |-> 0, inbuf |-> <<>>, delivered |-> 0,
     response |-> <<>>, received |-> <<>>, immediate_error |-> FALSE,
     outcome |-> "none", ret |-> NoReturn]

\* outside the engine model no command is followed
CmdRest == CmdIdle("internet_test")

\* a task that is not inside a ModemManager call
TaskIdle == [tpc |-> "idle", attempt |-> 0, ret |-> "none"]

\* ModemManager.__init__: self.lock = threading.Lock(), nobody holds it
\* (lock = 0); inflight is the set of tasks that have written a command and
\* not yet read its answer
MmRest ==
    [lock |-> 0, inflight |-> {}, task |-> [t \in 1..MaxTasks |-> TaskIdle]]

\* no send_sms call of program p has started
SmsIdle(p) ==
    [program |-> p, spc |-> "idle", attempt |-> 0, alt |-> FALSE,
     wire |-> <<>>, prompt |-> "none", reply |-> "none", code |-> "none",
     ret |-> "none"]

SmsRest == SmsIdle("speedometer")

\* main() of firstTry.py before modem.connect(): consecutive_failures = 0,
\* modem_available = False, SERIAL_PORT = "/dev/serial0"; port is the index
\* into ports_to_try, n the index of the init command or of the send_sms
\* attempt, recovering says that the reinitialisation branch is running,
\* log lists what was done to the modem since the program started or since
\* the reinitialisation began
FtRest ==
    [fpc |-> "connect", serial_port |-> "/dev/serial0", port |-> 1, n |-> 1,
     consecutive_failures |-> 0, modem_available |-> FALSE,
     recovering |-> FALSE, log |-> <<>>]

\* no sampling window has returned anything
NoReading == [speed |-> 0, pulse_count |-> 0, elapsed |-> 0]

\* __init__: running = True, pulse_count = 0, last_pulse_time = 0,
\* current_speed = 0.0, last_pin_state = 1.  Time (now, the value of
\* time.time()) is counted in periods of 10 ms, speeds in hundredths of a
\* km/h; edges counts the falling edges the loop of the current window saw
HallRest ==
    [hpc |-> "idle", now |-> 1, running |-> TRUE, start_time |-> 0,
     end_time |-> 0, start_count |-> 0, last_pin_state |-> 1,
     last_pulse_time |-> 0, pulse_count |-> 0, current_speed |-> 0,
     edges |-> 0, result |-> NoReading]

\* why a delivery attempt failed: a condition of the modem or the network
\* (SIM not inserted, no registration, link down), or the collector refusing
\* this reading; send_to_firebase returns False for both
Causes == {"environment", "reading"}

\* time.sleep / blocking reads: one more second on the wall clock
Tick(c) == IF c < MaxClock THEN c + 1 ELSE c

(***************************************************************************)
(* The table sensor_data.                                                  *)
(***************************************************************************)
\* INSERT INTO sensor_data (...): id AUTOINCREMENT, sent DEFAULT FALSE,
\* retry_count DEFAULT 0, created_at DEFAULT CURRENT_TIMESTAMP
InsertRow(table, reading, now) ==
    Append(table, [id |-> Len(table) + 1, reading |-> reading, sent |-> FALSE,
                   retry_count |-> 0, created_at |-> now])

\* variant: the UPDATE also blanks the payload of the delivered row
MarkDelivered_ClearsReading(table, id) ==
    [i \in DOMAIN table |->
        IF table[i].id = id
        THEN [table[i] EXCEPT !.sent = TRUE, !.reading = 0] ELSE table[i]]

\* variant: the UPDATE also clears the failure counter
MarkDelivered_ResetRetry(table, id) ==
    [i \in DOMAIN table |->
        IF table[i].id = id
        THEN [table[i] EXCEPT !.sent = TRUE, !.retry_count = 0] ELSE table[i]]

\* variant: the UPDATE also counts the delivery as an attempt
MarkDelivered_CountsAttempt(table, id) ==
    [i \in DOMAIN table |->
        IF table[i].id = id
        THEN [table[i] EXCEPT !.sent = TRUE, !.retry_count = @ + 1]
        ELSE table[i]]

\* UPDATE sensor_data SET sent = TRUE WHERE id = ?
MarkDelivered(table, id) ==
    [i \in DOMAIN table |->
        IF table[i].id = id THEN [table[i] EXCEPT !.sent = TRUE] ELSE table[i]]

\* UPDATE sensor_data SET retry_count = retry_count + 1 WHERE id = ?
MarkAttemptFailed(table, id) ==
    [i \in DOMAIN table |->
        IF table[i].id = id
        THEN [table[i] EXCEPT !.retry_count = @ + 1] ELSE table[i]]

\* variant: the INSERT is closed without commit, so it is rolled back
Commit_InsertRolledBack(table, t) ==
    CASE t.op = "sent"   -> MarkDelivered(table, t.id)
      [] t.op = "retry"  -> MarkAttemptFailed(table, t.id)
      [] OTHER           -> table

\* variant: the UPDATE ... SET sent = TRUE stays in the open transaction
Commit_SentDeferred(table, t) ==
    CASE t.op = "insert" -> InsertRow(table, t.id, t.created_at)
      [] t.op = "retry"  -> MarkAttemptFailed(table, t.id)
      [] OTHER           -> table

\* conn.commit(): the pending write of the connection reaches the file
Commit(table, t) ==
    CASE t.op = "insert" -> InsertRow(table, t.id, t.created_at)
      [] t.op = "sent"   -> MarkDelivered(table, t.id)
      [] t.op = "retry"  -> MarkAttemptFailed(table, t.id)
      [] OTHER           -> table

\* WHERE sent = FALSE AND retry_count < 5 (FirebaseClient),
\* WHERE sent = FALSE (CellularDataClient, whose table has no retry_count)
Selected(table, c) ==
    {i \in DOMAIN table :
        /\ ~table[i].sent
        /\ (c = "firebase" => table[i].retry_count < RETRY_CEILING)}

\* ORDER BY created_at: rows with equal created_at come in an order that SQL
\* leaves unspecified (it depends on the index the query planner picks); the
\* result lists are built front to back, each time from a row of least
\* created_at among those left
RECURSIVE OrderByCreatedAt(_, _)
OrderByCreatedAt(table, ids) ==
    IF ids = {} THEN {<<>>}
    ELSE UNION {{<<i>> \o s : s \in OrderByCreatedAt(table, ids \ {i})} :
                  i \in {i \in ids : \A j \in ids :
                            table[i].created_at <= table[j].created_at}}

\* LIMIT n
Limit(s, n) == IF Len(s) <= n THEN s ELSE SubSeq(s, 1, n)

\* cursor.fetchall() of the SELECT: the possible result lists (row snapshots)
FetchUnsent(table, c) ==
    {[j \in 1..Len(Limit(s, IF c = "firebase" THEN BATCH_LIMIT ELSE Len(s))) |->
          table[s[j]]] : s \in OrderByCreatedAt(table, Selected(table, c))}

(***************************************************************************)
(* Initial state: a fresh database file (init_database), loaded config.    *)
(***************************************************************************)
QueueInit ==
    /\ client \in Clients
    /\ retry_attempts \in 1..MaxRetryAttempts
    /\ db = <<>>
    /\ tx = NoTx
    /\ pc = "monitor"
    /\ data = NoData
    /\ batch = <<>>
    /\ k = 0
    /\ outcomes = <<>>
    /\ clock = 0
    /\ acked = {}
    /\ last = NoAttempt
    /\ enqueued = {}
    /\ crashes = 0

Init ==
    /\ QueueInit
    /\ failures = <<>>
    /\ sim = SimReady
    /\ cmd = CmdRest
    /\ mm = MmRest
    /\ sms = SmsRest
    /\ ft = FtRest
    /\ hall = HallRest

\* data = self.monitor_speed(data_interval): a new reading; data_interval
\* seconds pass (the configured interval may be 0)
monitor_speed ==
    /\ pc = "monitor"
    /\ \E c \in {clock, Tick(clock)} : clock' = c
    /\ data' = [reading |-> Len(db) + 1, stored |-> FALSE]
    /\ last' = NoAttempt
    /\ pc' = "store"
    /\ UNCHANGED <<sim, cmd, mm, sms, ft, hall, failures, client,
                   retry_attempts, db, tx, batch, k, outcomes, acked,
                   enqueued, crashes>>

(***************************************************************************)
(* store_data_locally(data)                                                *)
(***************************************************************************)
\* cursor.execute(INSERT ...): the row is written in the open transaction;
\* created_at is CURRENT_TIMESTAMP of this moment
store_data_locally_insert ==
    /\ pc = "store"
    /\ Len(db) < MaxRows
    /\ tx' = [op |-> "insert", id |-> data.reading, created_at |-> clock]
    /\ pc' = "store_commit"
    /\ UNCHANGED <<sim, cmd, mm, sms, ft, hall, failures, client,
                   retry_attempts, db, data, batch, k, outcomes, clock, acked,
                   last, enqueued, crashes>>

\* conn.commit(); conn.close(); print("[DB] Data stored locally"); return
store_data_locally_commit ==
    /\ pc = "store_commit"
    /\ db' = Commit(db, tx)
    /\ tx' = NoTx
    /\ data' = [data EXCEPT !.stored = TRUE]
    /\ enqueued' = enqueued \cup {data.reading}
    /\ pc' = "send"
    /\ UNCHANGED <<sim, cmd, mm, sms, ft, hall, failures, client,
                   retry_attempts, batch, k, outcomes, clock, acked, last,
                   crashes>>

\* except Exception as e: print("[ERROR] Local storage failed"): connect,
\* INSERT or commit raised (database locked, disk full, ...); the function
\* returns None as it does on success
store_data_locally_except ==
    /\ pc \in {"store", "store_commit"}
    /\ tx' = NoTx
    /\ pc' = "send"
    /\ UNCHANGED <<sim, cmd, mm, sms, ft, hall, failures, client,
                   retry_attempts, db, data, batch, k, outcomes, clock, acked,
                   last, enqueued, crashes>>

(***************************************************************************)
(* send_to_firebase(data) / send_http_request(data): one delivery attempt. *)
(* ok is its return value: TRUE iff the modem reported +HTTPACTION: 1,200  *)
(* (or 1,201) for the POST of this reading.                                *)
(***************************************************************************)
Attempt(row, ok, kind) ==
    /\ \E c \in (IF ok \/ DOMAIN failures = {} THEN {"none"} ELSE Causes) :
          last' = [row |-> row, ok |-> ok, kind |-> kind, cause |-> c]
    /\ failures' = IF /\ ~ok
                      /\ row \in DOMAIN failures
                      /\ failures[row] < MaxFailures
                   THEN [failures EXCEPT ![row] = @ + 1]
                   ELSE failures
    /\ acked' = IF ok /\ row # 0 THEN acked \cup {row} ELSE acked
    /\ clock' \in (IF ok THEN {Tick(clock)} ELSE {clock, Tick(clock)})

\* "if self.send_to_firebase(data):" of data_collection_loop; on success the
\* loop goes on to sync_buffered_data, otherwise to the next sample
send_immediate ==
    /\ pc = "send"
    /\ \E ok \in BOOLEAN :
          /\ Attempt(IF data.stored THEN data.reading ELSE 0, ok, "immediate")
          /\ pc' = IF ok THEN "sync_select" ELSE "monitor"
    /\ data' = NoData
    /\ UNCHANGED <<sim, cmd, mm, sms, ft, hall, client, retry_attempts, db,
                   tx, batch, k, outcomes, enqueued, crashes>>

(***************************************************************************)
(* sync_buffered_data()                                                    *)
(***************************************************************************)
\* variant: no break after a failure
DrainContinues_NoBreak(ok) == TRUE

\* the for loop goes on to the next row only after a success; after a
\* failure it leaves with break
DrainContinues(ok) == ok

\* the next iteration of "for row in unsent_data"
NextRow ==
    /\ pc' = "sync_row"
    /\ k' = k + 1
    /\ UNCHANGED <<batch, outcomes>>

\* sync_buffered_data returns to data_collection_loop; its locals are gone
Return ==
    /\ pc' = "monitor"
    /\ batch' = <<>>
    /\ k' = 0
    /\ outcomes' = <<>>

\* cursor.execute(SELECT ...); unsent_data = cursor.fetchall()
sync_select ==
    /\ pc = "sync_select"
    /\ \E b \in FetchUnsent(db, client) : batch' = b
    /\ k' = 1
    /\ outcomes' = <<>>
    /\ pc' = "sync_row"
    /\ UNCHANGED <<sim, cmd, mm, sms, ft, hall, failures, client,
                   retry_attempts, db, tx, data, clock, acked, last, enqueued,
                   crashes>>

\* "if self.send_to_firebase(data):" for row = unsent_data[k]
sync_send ==
    /\ pc = "sync_row"
    /\ k <= Len(batch)
    /\ \E ok \in BOOLEAN :
          /\ Attempt(batch[k].id, ok, "drain")
          /\ outcomes' = Append(outcomes, ok)
    /\ pc' = "sync_update"
    /\ UNCHANGED <<sim, cmd, mm, sms, ft, hall, client, retry_attempts, db,
                   tx, data, batch, k, enqueued, crashes>>

\* cursor.execute(UPDATE ...) of the branch taken; CellularDataClient has no
\* UPDATE in its failure branch
sync_update ==
    /\ pc = "sync_update"
    /\ IF outcomes[k]
       THEN /\ tx' = [op |-> "sent", id |-> batch[k].id, created_at |-> 0]
            /\ pc' = "sync_commit"
            /\ UNCHANGED <<batch, k, outcomes>>
       ELSE IF client = "firebase"
       THEN /\ tx' = [op |-> "retry", id |-> batch[k].id, created_at |-> 0]
            /\ pc' = "sync_commit"
            /\ UNCHANGED <<batch, k, outcomes>>
       ELSE /\ tx' = tx
            /\ IF DrainContinues(FALSE) THEN NextRow ELSE Return
    /\ UNCHANGED <<sim, cmd, mm, sms, ft, hall, failures, client,
                   retry_attempts, db, data, clock, acked, last, enqueued,
                   crashes>>

\* conn.commit(), then the next row, or break and conn.close()
sync_commit ==
    /\ pc = "sync_commit"
    /\ db' = Commit(db, tx)
    /\ tx' = NoTx
    /\ IF DrainContinues(outcomes[k]) THEN NextRow ELSE Return
    /\ UNCHANGED <<sim, cmd, mm, sms, ft, hall, failures, client,
                   retry_attempts, data, clock, acked, last, enqueued,
                   crashes>>

\* the for loop is exhausted: conn.close()
sync_close ==
    /\ pc = "sync_row"
    /\ k > Len(batch)
    /\ Return
    /\ UNCHANGED <<sim, cmd, mm, sms, ft, hall, failures, client,
                   retry_attempts, db, tx, data, clock, acked, last, enqueued,
                   crashes>>

\* except Exception as e: print("[ERROR] Data sync failed"): connect, SELECT,
\* UPDATE or commit raised; the open transaction is dropped
sync_except ==
    /\ pc \in {"sync_select", "sync_update", "sync_commit"}
    /\ tx' = NoTx
    /\ Return
    /\ UNCHANGED <<sim, cmd, mm, sms, ft, hall, failures, client,
                   retry_attempts, db, data, clock, acked, last, enqueued,
                   crashes>>

(***************************************************************************)
(* The process dies (power loss) and is started again: run() re-opens the  *)
(* database file, init_database finds the table, the loop starts over.     *)
(* Whatever was not committed is gone.                                     *)
(***************************************************************************)
Crash ==
    /\ crashes < MaxCrashes
    /\ crashes' = crashes + 1
    /\ tx' = NoTx
    /\ pc' = "monitor"
    /\ data' = NoData
    /\ batch' = <<>>
    /\ k' = 0
    /\ outcomes' = <<>>
    /\ last' = NoAttempt
    /\ clock' = Tick(clock)
    /\ UNCHANGED <<sim, cmd, mm, sms, ft, hall, failures, client,
                   retry_attempts, db, acked, enqueued>>

\* the steps of the program itself
Step ==
    \/ monitor_speed
    \/ store_data_locally_insert
    \/ store_data_locally_commit
    \/ store_data_locally_except
    \/ send_immediate
    \/ sync_select
    \/ sync_send
    \/ sync_update
    \/ sync_commit
    \/ sync_close
    \/ sync_except

Next == Step \/ Crash

Spec == Init /\ [][Next]_vars

\* data_collection_loop is "while self.running": the process keeps taking
\* steps as long as it is not killed
FairSpec == Spec /\ WF_vars(Step)

\* the same program, with the failed attempts of every row and their causes
\* followed from the start
CountInit ==
    /\ QueueInit
    /\ failures = [i \in 1..MaxRows |-> 0]
    /\ sim = SimReady
    /\ cmd = CmdRest
    /\ mm = MmRest
    /\ sms = SmsRest
    /\ ft = FtRest
    /\ hall = HallRest

CountSpec == CountInit /\ [][Next]_vars

\* a database file that earlier runs of the process left behind
\* (init_database is CREATE TABLE IF NOT EXISTS): n readings stored one per
\* second while the link was down, none of them sent
Backlog(n) ==
    [j \in 1..n |-> [id |-> j, reading |-> j, sent |-> FALSE,
                     retry_count |-> 0, created_at |-> j - n]]

\* the process starts on a fresh file or, for CellularDataClient, on a
\* backlog one row longer than the LIMIT of FirebaseClient's SELECT; the rows
\* added in this run stay capped by MaxRows, so the backlog file takes no
\* new row
BatchInit ==
    /\ \/ client \in Clients /\ db = <<>>
       \/ client = "cellular" /\ db = Backlog(BATCH_LIMIT + 1)
    /\ retry_attempts \in 1..MaxRetryAttempts
    /\ tx = NoTx
    /\ pc = "monitor"
    /\ data = NoData
    /\ batch = <<>>
    /\ k = 0
    /\ outcomes = <<>>
    /\ clock = 0
    /\ acked = {}
    /\ last = NoAttempt
    /\ enqueued = DOMAIN db
    /\ crashes = 0
    /\ failures = <<>>
    /\ sim = SimReady
    /\ cmd = CmdRest
    /\ mm = MmRest
    /\ sms = SmsRest
    /\ ft = FtRest
    /\ hall = HallRest

BatchSpec == BatchInit /\ [][Next]_vars

\* an endpoint that refuses reading 1 whenever it is posted and accepts
\* every other reading: the return value of this attempt
HeadRefused == last'.ok = (last'.row # 1)

\* the same loop in that environment, with a process that is not killed and
\* a database that raises only when the table is full
BlockedNext ==
    \/ monitor_speed
    \/ store_data_locally_insert
    \/ store_data_locally_commit
    \/ store_data_locally_except /\ pc = "store" /\ Len(db) >= MaxRows
    \/ send_immediate /\ HeadRefused
    \/ sync_select
    \/ sync_send /\ HeadRefused
    \/ sync_update
    \/ sync_commit
    \/ sync_close

\* data_collection_loop is "while self.running"
BlockedSpec == Init /\ [][BlockedNext]_vars /\ WF_vars(BlockedNext)

(***************************************************************************)
(* The modem session, step by step: power key pulse, serial port, AT       *)
(* handshake, configuration, registration polls, and then the delivery     *)
(* attempts, each a sequence of AT+HTTP... commands.  Five programs drive  *)
(* the modem: FirebaseClient and CellularDataClient (the same               *)
(* init_sim_module), PersistentSpeedometer, SIM7070GInternetTest and       *)
(* WaveshareSIM7070G (initialize_module).                                  *)
(* sim.wire holds the commands written since the last power pulse or, once *)
(* deliveries have started, since the start of the current attempt.        *)
(* sim.cpin and sim.creg hold the last answer to AT+CPIN? and to AT+CREG?  *)
(* since the last power pulse.                                             *)
(***************************************************************************)
Programs == Clients \cup {"persistent", "internet_test", "waveshare"}

\* for attempt in range(5) / for at_attempt in range(10); initialize_module
\* of WaveshareSIM7070G sends AT once
AT_ATTEMPTS(p) ==
    IF p = "persistent" THEN 10 ELSE IF p = "waveshare" THEN 1 ELSE 5

\* max_attempts = 3 of PersistentSpeedometer.init_sim_module
MAX_ATTEMPTS == 3

\* for attempt in range(30): AT+CREG? polls
CREG_POLLS == 30

\* for attempt in range(10): AT+CPIN? polls of initialize_module
CPIN_POLLS == 10

\* b'OK' in response; PersistentSpeedometer also takes the echo of the
\* command (b'AT' in response) for an answer
Responding(p, r) == r = "OK" \/ (p = "persistent" /\ r = "echo")

\* the commands between the handshake and the registration polls; their
\* answers are not acted upon
ConfigCommands(p) ==
    IF p = "persistent" THEN <<"ATE0">>
    ELSE IF p = "waveshare" THEN <<"ATE0", "ATI">>
    ELSE <<"ATE0", "AT+CMEE=2", "AT+CGDCONT", "AT+CGATT=1">>

\* the parameter commands between AT+HTTPINIT and AT+HTTPDATA
HttpSetup(p) ==
    IF p = "firebase"
    THEN <<"AT+HTTPSSL=1", "AT+HTTPPARA_CID", "AT+HTTPPARA_URL",
           "AT+HTTPPARA_USERDATA", "AT+HTTPPARA_USERDATA">>
    ELSE <<"AT+HTTPPARA_CID", "AT+HTTPPARA_URL">>

\* '+HTTPACTION: 1,200' in response (FirebaseClient: or '+HTTPACTION: 1,201')
HttpOk(p, reply) == reply = "200" \/ (p = "firebase" /\ reply = "201")

\* variant: the program re-initialises the modem whatever init returned
RunRetriesInit_Always(ret) == TRUE

\* "while not self.init_sim_module():" of PersistentSpeedometer.run
RunRetriesInit(ret) == ~ret

\* init_sim_module gives up on this try (handshake exhausted, or an
\* exception): FirebaseClient and CellularDataClient return False and run()
\* returns; PersistentSpeedometer goes to its next try, which starts with a
\* power pulse, and after MAX_ATTEMPTS tries returns False to run()
InitFailed(s, why) ==
    IF client = "persistent"
    THEN [s EXCEPT !.fault = why, !.n = 0,
                   !.attempt = IF s.attempt < MAX_ATTEMPTS - 1
                               THEN s.attempt + 1 ELSE 0,
                   !.mpc = IF s.attempt < MAX_ATTEMPTS - 1 THEN "power"
                           ELSE IF RunRetriesInit(FALSE) THEN "power"
                           ELSE "running"]
    ELSE [s EXCEPT !.fault = why, !.n = 0, !.mpc = "stopped"]

\* init_sim_module / initialize_module returns True
InitSucceeded(s) ==
    IF client = "persistent"
    THEN [s EXCEPT !.n = 0, !.attempt = 0,
                   !.mpc = IF RunRetriesInit(TRUE) THEN "power" ELSE "running"]
    ELSE IF client = "waveshare"
    THEN [s EXCEPT !.n = 0, !.mpc = "initialized"]
    ELSE [s EXCEPT !.n = 0, !.mpc = "idle"]

\* the tests list of comprehensive_test, by the first step of each test
TESTS ==
    <<"at", "sim_card", "netreg", "signal", "data", "dns",
      "t_http_init", "t_http_init", "t_http_init">>

\* a test of comprehensive_test returns (True or False): the for loop goes
\* on to the next test in either case
TestDone(s) ==
    [s EXCEPT !.n = 0, !.test = @ + 1,
              !.mpc = IF s.test < Len(TESTS) THEN TESTS[s.test + 1]
                      ELSE "stopped"]

\* the possible command sequences of setup_data_connection: one to three
\* AT+CGDCONT, then AT+CGATT=1 unless no APN was accepted, then AT+CGATT?
\* if the attach succeeded
DataConnectionWrites ==
    LET apn(i) == [j \in 1..i |-> "AT+CGDCONT"]
    IN  {apn(i) \o t : i \in 1..3,
                       t \in {<<"AT+CGATT=1">>, <<"AT+CGATT=1", "AT+CGATT?">>}}
        \cup {apn(3)}

ModemInit ==
    /\ client \in Programs
    /\ retry_attempts = MaxRetryAttempts
    /\ db = <<>>
    /\ tx = NoTx
    /\ pc = "monitor"
    /\ data = NoData
    /\ batch = <<>>
    /\ k = 0
    /\ outcomes = <<>>
    /\ clock = 0
    /\ acked = {}
    /\ last = NoAttempt
    /\ enqueued = {}
    /\ crashes = 0
    /\ failures = <<>>
    /\ sim = SimOff
    /\ cmd = CmdRest
    /\ mm = MmRest
    /\ sms = SmsRest
    /\ ft = FtRest
    /\ hall = HallRest

\* GPIO.output(4, LOW); HIGH; LOW; time.sleep(20): the power key is pulsed
\* and the modem boots; what the running modem knew is gone
power_cycle_sim ==
    /\ sim.mpc = "power"
    /\ sim.pulses < MaxPulses
    /\ sim' = [sim EXCEPT !.pulses = @ + 1, !.wire = <<>>,
                          !.registered = FALSE, !.fault = "none",
                          !.result = "none", !.reply = "none",
                          !.cpin = "none", !.creg = "none",
                          !.n = 0, !.mpc = "serial"]
    /\ UNCHANGED <<qvars, cmd, mm, sms, ft, hall>>

\* self.ser = serial.Serial('/dev/serial0', 57600, ...); it may raise
open_serial ==
    /\ sim.mpc = "serial"
    /\ \E ok \in BOOLEAN :
          sim' = IF ok
                 THEN [sim EXCEPT !.mpc = "at", !.n = 0,
                          !.test = IF client = "internet_test" THEN 1 ELSE 0]
                 ELSE InitFailed(sim, "exception")
    /\ UNCHANGED <<qvars, cmd, mm, sms, ft, hall>>

\* one turn of the handshake loop: write AT, read; leave the loop on an
\* answer, and fall into the else branch after the last turn.
\* test_basic_communication returns False there and comprehensive_test goes
\* on with its next test
at_handshake ==
    /\ sim.mpc = "at"
    /\ \E r \in {"OK", "echo", "none"} :
          LET s == [sim EXCEPT !.wire = Append(@, "AT")]
          IN  sim' =
                IF Responding(client, r)
                THEN IF client = "internet_test" THEN TestDone(s)
                     ELSE [s EXCEPT !.mpc = "config", !.n = 1]
                ELSE IF sim.n + 1 < AT_ATTEMPTS(client)
                THEN [s EXCEPT !.n = @ + 1]
                ELSE IF client = "internet_test"
                THEN TestDone([s EXCEPT !.fault = "handshake"])
                ELSE InitFailed(s, "handshake")
    /\ UNCHANGED <<qvars, cmd, mm, sms, ft, hall>>

\* "for cmd, desc in commands": write, sleep, read; a warning at most
configure ==
    /\ sim.mpc = "config"
    /\ LET s == [sim EXCEPT !.wire = Append(@, ConfigCommands(client)[sim.n])]
       IN  sim' = IF sim.n < Len(ConfigCommands(client))
                  THEN [s EXCEPT !.n = @ + 1]
                  ELSE IF client = "persistent" THEN InitSucceeded(s)
                  ELSE IF client = "waveshare"
                  THEN [s EXCEPT !.mpc = "cpin", !.n = 0]
                  ELSE [s EXCEPT !.mpc = "creg", !.n = 0]
    /\ UNCHANGED <<qvars, cmd, mm, sms, ft, hall>>

\* one turn of "for attempt in range(10)" of initialize_module: AT+CPIN?;
\* break on READY; return False on SIM PIN, SIM PUK or ERROR (no SIM
\* inserted); the else branch of the loop prints "Continuing without SIM
\* READY confirmation..." and goes on to the registration polls
poll_sim_status ==
    /\ sim.mpc = "cpin"
    /\ \E r \in {"READY", "SIM PIN", "SIM PUK", "ERROR", "none"} :
          LET s == [sim EXCEPT !.wire = Append(@, "AT+CPIN?"), !.cpin = r]
          IN  sim' =
                IF r = "READY" THEN [s EXCEPT !.mpc = "creg", !.n = 0]
                ELSE IF r # "none" THEN InitFailed(s, "sim")
                ELSE IF sim.n + 1 < CPIN_POLLS
                THEN [s EXCEPT !.n = @ + 1]
                ELSE [s EXCEPT !.mpc = "creg", !.n = 0]
    /\ UNCHANGED <<qvars, cmd, mm, sms, ft, hall>>

\* one turn of "for attempt in range(30)": AT+CREG?; break on '+CREG: 0,1'
\* or '+CREG: 0,5'; any other answer ('+CREG: 0,3', registration denied,
\* among them) leads to the next turn; the else branch of the loop only
\* prints a warning, and init_sim_module returns True in either case.
\* initialize_module writes AT+CSQ before it returns True
poll_registration ==
    /\ sim.mpc = "creg"
    /\ \E r \in {"registered", "searching", "denied", "none"} :
          LET s == [sim EXCEPT !.wire = Append(@, "AT+CREG?"), !.creg = r]
              done(t) == InitSucceeded(
                            IF client = "waveshare"
                            THEN [t EXCEPT !.wire = Append(@, "AT+CSQ")]
                            ELSE t)
          IN  sim' =
                IF r = "registered"
                THEN done([s EXCEPT !.registered = TRUE])
                ELSE IF sim.n + 1 < CREG_POLLS
                THEN [s EXCEPT !.n = @ + 1]
                ELSE done(s)
    /\ UNCHANGED <<qvars, cmd, mm, sms, ft, hall>>

\* except Exception as e: a write or a read of the handshake, of the
\* configuration or of a poll raised
init_sim_module_except ==
    /\ sim.mpc \in {"at", "config", "creg"}
    /\ client \notin {"internet_test", "waveshare"}
    /\ sim' = InitFailed(sim, "exception")
    /\ UNCHANGED <<qvars, cmd, mm, sms, ft, hall>>

(***************************************************************************)
(* send_http_via_sim / send_http_request: one delivery attempt.            *)
(***************************************************************************)
\* the +HTTPACTION status lines the modem can produce: 200, 201, any other
LateStatus == {"200", "201", "other"}

\* the input buffer of the serial port after a line of the modem arrived
Arrive(buf, line) == buf \cup {line}

\* what is pending in the input buffer when a command is written: nothing
\* clears it (no self.ser.reset_input_buffer() before the write), so
\* self.ser.read(n) after the write returns it in front of the answer
PendingInput(buf) == buf

\* the modem sends a +HTTPACTION line that the read(500) of its attempt did
\* not wait for; it lands in the input buffer of the serial port
late_answer_arrives ==
    /\ client \in Clients
    /\ sim.mpc \in {"idle", "http_setup", "http_data", "http_no_download",
                    "http_post", "http_term"}
    /\ sim.owed # "none"
    /\ sim' = [sim EXCEPT !.inbuf = Arrive(@, sim.owed), !.owed = "none"]
    /\ UNCHANGED <<qvars, cmd, mm, sms, ft, hall>>

\* self.ser.write(b'AT+HTTPINIT\r\n'); time.sleep(2); self.ser.read(100):
\* the read takes what is pending with the answer, and drops it
http_init ==
    /\ sim.mpc = "idle"
    /\ sim' = [sim EXCEPT !.wire = <<"AT+HTTPINIT">>, !.result = "none",
                          !.reply = "none", !.stale = {}, !.inbuf = {},
                          !.n = 1, !.mpc = "http_setup"]
    /\ UNCHANGED <<qvars, cmd, mm, sms, ft, hall>>

\* AT+HTTPSSL, AT+HTTPPARA ...: written one after the other, each followed
\* by self.ser.read(100), whose result is dropped
http_setup ==
    /\ sim.mpc = "http_setup"
    /\ LET s == [sim EXCEPT !.wire = Append(@, HttpSetup(client)[sim.n]),
                            !.inbuf = {}]
       IN  sim' = IF sim.n < Len(HttpSetup(client))
                  THEN [s EXCEPT !.n = @ + 1]
                  ELSE [s EXCEPT !.n = 0, !.mpc = "http_data"]
    /\ UNCHANGED <<qvars, cmd, mm, sms, ft, hall>>

\* AT+HTTPDATA=...; response = self.ser.read(100);
\* if b'DOWNLOAD' in response
http_data ==
    /\ sim.mpc = "http_data"
    /\ \E download \in BOOLEAN :
          sim' = [sim EXCEPT !.wire = Append(@, "AT+HTTPDATA"),
                             !.stale = PendingInput(sim.inbuf), !.inbuf = {},
                             !.mpc = IF download THEN "http_post"
                                     ELSE "http_no_download"]
    /\ UNCHANGED <<qvars, cmd, mm, sms, ft, hall>>

\* the else branch: FirebaseClient writes AT+HTTPTERM and returns False,
\* CellularDataClient returns False
http_no_download ==
    /\ sim.mpc = "http_no_download"
    /\ sim' = [sim EXCEPT !.wire = IF client = "firebase"
                                   THEN Append(@, "AT+HTTPTERM") ELSE @,
                          !.result = "fail", !.mpc = "idle"]
    /\ UNCHANGED <<qvars, cmd, mm, sms, ft, hall>>

\* the payload, AT+HTTPACTION=1, time.sleep, response = self.ser.read(500):
\* r is the status line of this POST if it came before the read returned
\* (the port timeout is 10 s); a status line that comes later is owed.
\* response is what was pending followed by r
http_post ==
    /\ sim.mpc = "http_post"
    /\ \E r \in LateStatus \cup {"none"} :
       \E o \in (IF r = "none" /\ sim.owed = "none" /\ sim.late < MaxLate
                 THEN LateStatus \cup {"none"} ELSE {sim.owed}) :
          sim' = [sim EXCEPT !.wire = @ \o <<"payload", "AT+HTTPACTION=1">>,
                             !.reply = r,
                             !.stale = PendingInput(sim.inbuf), !.inbuf = {},
                             !.owed = o,
                             !.late = IF o # sim.owed THEN @ + 1 ELSE @,
                             !.mpc = "http_term"]
    /\ UNCHANGED <<qvars, cmd, mm, sms, ft, hall>>

\* '+HTTPACTION: 1,200' in response (or 1,201), response being the whole
\* text that read(500) returned
ResponseOk(p, reply, stale) ==
    HttpOk(p, reply) \/ \E t \in stale : HttpOk(p, t)

\* AT+HTTPTERM, self.ser.read(100), then the check of the response read
\* before it
http_term ==
    /\ sim.mpc = "http_term"
    /\ sim' = [sim EXCEPT !.wire = Append(@, "AT+HTTPTERM"),
                          !.inbuf = {},
                          !.result = IF ResponseOk(client, sim.reply,
                                                   sim.stale)
                                     THEN "ok" ELSE "fail",
                          !.mpc = "idle"]
    /\ UNCHANGED <<qvars, cmd, mm, sms, ft, hall>>

\* except Exception as e: a write or a read after AT+HTTPINIT raised.
\* FirebaseClient tries to write AT+HTTPTERM, and that write may raise again
\* (except: pass); CellularDataClient writes nothing.  Both return False
send_http_except ==
    /\ sim.mpc \in {"http_setup", "http_data", "http_no_download",
                    "http_post", "http_term"}
    /\ \E written \in (IF client = "firebase" THEN BOOLEAN ELSE {FALSE}) :
          sim' = [sim EXCEPT !.wire = IF written
                                      THEN Append(@, "AT+HTTPTERM") ELSE @,
                             !.result = "fail", !.mpc = "idle"]
    /\ UNCHANGED <<qvars, cmd, mm, sms, ft, hall>>

\* Ctrl+C while data_collection_loop runs: KeyboardInterrupt is not an
\* Exception, so no "except Exception" of the loop or of the delivery
\* attempt catches it; run() catches it, and its finally clause calls
\* cleanup(), which closes the serial port and writes nothing to it
keyboard_interrupt ==
    /\ client \in Clients
    /\ sim.mpc \in {"idle", "http_setup", "http_data", "http_no_download",
                    "http_post", "http_term"}
    /\ sim' = [sim EXCEPT !.mpc = "closed"]
    /\ UNCHANGED <<qvars, cmd, mm, sms, ft, hall>>

(***************************************************************************)
(* PersistentSpeedometer after init: send_sms, again and again.            *)
(***************************************************************************)
send_sms ==
    /\ sim.mpc = "running"
    /\ \E ok \in BOOLEAN :
          sim' = [sim EXCEPT !.wire = <<"AT+CMGF=1", "AT+CMGS", "message">>,
                             !.result = IF ok THEN "ok" ELSE "fail"]
    /\ UNCHANGED <<qvars, cmd, mm, sms, ft, hall>>

(***************************************************************************)
(* SIM7070GInternetTest.comprehensive_test after test_basic_communication. *)
(* Every command goes through send_at_command, which catches exceptions    *)
(* and reports them as a failure.                                          *)
(***************************************************************************)
\* AT+CPIN?, and AT+CCID when the SIM is READY; the test returns False on
\* any other answer
check_sim_card ==
    /\ sim.mpc = "sim_card"
    /\ \E r \in {"READY", "SIM PIN", "ERROR", "none"} :
          sim' = TestDone([sim EXCEPT !.cpin = r, !.wire =
                     IF r = "READY" THEN @ \o <<"AT+CPIN?", "AT+CCID">>
                     ELSE Append(@, "AT+CPIN?")])
    /\ UNCHANGED <<qvars, cmd, mm, sms, ft, hall>>

\* one turn of the AT+CREG? loop.  status is what follows the comma in the
\* answer, stripped at its ends only: for the answer "+CREG: 0,1", CR LF,
\* CR LF, "OK" that send_at_command returns, status is "1\r\n\r\nOK", which
\* equals none of "1", "5", "3"; so the loop always runs to its end and the
\* test returns False, whatever the modem answered
check_network_registration ==
    /\ sim.mpc = "netreg"
    /\ \E r \in {"registered", "searching", "denied", "none"} :
          LET s == [sim EXCEPT !.wire = Append(@, "AT+CREG?"), !.creg = r,
                               !.registered = @ \/ r = "registered"]
          IN  sim' = IF sim.n + 1 < CREG_POLLS
                     THEN [s EXCEPT !.n = @ + 1]
                     ELSE TestDone(s)
    /\ UNCHANGED <<qvars, cmd, mm, sms, ft, hall>>

\* AT+CSQ
check_signal_quality ==
    /\ sim.mpc = "signal"
    /\ sim' = TestDone([sim EXCEPT !.wire = Append(@, "AT+CSQ")])
    /\ UNCHANGED <<qvars, cmd, mm, sms, ft, hall>>

setup_data_connection ==
    /\ sim.mpc = "data"
    /\ \E w \in DataConnectionWrites :
          sim' = TestDone([sim EXCEPT !.wire = @ \o w])
    /\ UNCHANGED <<qvars, cmd, mm, sms, ft, hall>>

\* AT+CDNSGIP="google.com"
test_dns_resolution ==
    /\ sim.mpc = "dns"
    /\ sim' = TestDone([sim EXCEPT !.wire = Append(@, "AT+CDNSGIP")])
    /\ UNCHANGED <<qvars, cmd, mm, sms, ft, hall>>

\* test_http_request: AT+HTTPINIT; "if not success: return False"
test_http_init ==
    /\ sim.mpc = "t_http_init"
    /\ \E success \in BOOLEAN :
          LET s == [sim EXCEPT !.wire = <<"AT+HTTPINIT">>, !.reply = "none",
                               !.result = "none"]
          IN  sim' = IF success
                     THEN [s EXCEPT !.mpc = "t_http_para", !.n = 1]
                     ELSE TestDone([s EXCEPT !.result = "fail"])
    /\ UNCHANGED <<qvars, cmd, mm, sms, ft, hall>>

\* AT+HTTPPARA="CID",1 and AT+HTTPPARA="URL",...; "if not success: return
\* False" after each
test_http_para ==
    /\ sim.mpc = "t_http_para"
    /\ \E success \in BOOLEAN :
          LET s == [sim EXCEPT !.wire = Append(@,
                       <<"AT+HTTPPARA_CID", "AT+HTTPPARA_URL">>[sim.n])]
          IN  sim' = IF ~success THEN TestDone([s EXCEPT !.result = "fail"])
                     ELSE IF sim.n < 2 THEN [s EXCEPT !.n = @ + 1]
                     ELSE [s EXCEPT !.n = 0, !.mpc = "t_http_action"]
    /\ UNCHANGED <<qvars, cmd, mm, sms, ft, hall>>

\* AT+HTTPACTION=0 and, if it succeeded, AT+HTTPREAD
test_http_action ==
    /\ sim.mpc = "t_http_action"
    /\ \E r \in {"200", "other", "none"} :
          sim' = [sim EXCEPT !.wire = IF r = "none"
                                      THEN Append(@, "AT+HTTPACTION=0")
                                      ELSE @ \o <<"AT+HTTPACTION=0",
                                                  "AT+HTTPREAD">>,
                             !.reply = r, !.mpc = "t_http_term"]
    /\ UNCHANGED <<qvars, cmd, mm, sms, ft, hall>>

\* AT+HTTPTERM and return, True after a 200 and False otherwise
test_http_term ==
    /\ sim.mpc = "t_http_term"
    /\ sim' = TestDone([sim EXCEPT !.wire = Append(@, "AT+HTTPTERM"),
                                   !.result = IF sim.reply = "200"
                                              THEN "ok" ELSE "fail"])
    /\ UNCHANGED <<qvars, cmd, mm, sms, ft, hall>>

ModemNext ==
    \/ power_cycle_sim
    \/ open_serial
    \/ at_handshake
    \/ configure
    \/ poll_sim_status
    \/ poll_registration
    \/ init_sim_module_except
    \/ late_answer_arrives
    \/ http_init
    \/ http_setup
    \/ http_data
    \/ http_no_download
    \/ http_post
    \/ http_term
    \/ send_http_except
    \/ keyboard_interrupt
    \/ send_sms
    \/ check_sim_card
    \/ check_network_registration
    \/ check_signal_quality
    \/ setup_data_connection
    \/ test_dns_resolution
    \/ test_http_init
    \/ test_http_para
    \/ test_http_action
    \/ test_http_term

ModemSpec == ModemInit /\ [][ModemNext]_vars

\* the HTTP context of the modem is open after the commands w: AT+HTTPINIT
\* was written and no AT+HTTPTERM after it
HttpOpen(w) ==
    \E i \in DOMAIN w :
        /\ w[i] = "AT+HTTPINIT"
        /\ \A j \in DOMAIN w : j > i => w[j] # "AT+HTTPTERM"

(***************************************************************************)
(* send_at_command: the four command/response engines of the repository.   *)
(* Time is counted in polling slices of 0.1 s (time.sleep(0.1)); the       *)
(* channel delivers tokens into the input buffer of the serial port at any *)
(* moment between the write and the return.                                *)
(***************************************************************************)
Engines == {"internet_test", "waveshare", "sms_final_fix", "firstTry"}

\* what the modem may send: final results, the prompt, a line of data and
\* line ends
Tokens == {"OK", "ERROR", "+CME ERROR: 10", ">", "+CSQ: 20,0", "\r\n"}

\* the tokens that contain the text ERROR
ErrorTokens == {"ERROR", "+CME ERROR: 10"}

\* time.sleep(1) of ModemManager._send_at_command, in slices
FIRSTTRY_SLEEP == 10

\* serial.Serial(port, baud_rate, timeout=2): read(500) blocks that long
\* unless 500 bytes arrive, in slices
FIRSTTRY_PORT_TIMEOUT == 20

\* needle in response, for the needles the engines look for
Has(response, needle) ==
    \E i \in DOMAIN response :
        IF needle = "ERROR" THEN response[i] \in ErrorTokens
        ELSE response[i] = needle

\* response.strip(): leading and trailing white space removed
RECURSIVE Strip(_)
Strip(t) ==
    IF t = <<>> THEN t
    ELSE IF Head(t) = "\r\n" THEN Strip(Tail(t))
    ELSE IF t[Len(t)] = "\r\n" THEN Strip(SubSeq(t, 1, Len(t) - 1))
    ELSE t

\* variant: response = self.ser.read(...), the chunk replaces the text
Accumulate_Overwrite(response, chunk) == chunk

\* response += self.ser.read(self.ser.in_waiting).decode(...)
Accumulate(response, chunk) == response \o chunk

\* the condition on which the polling loop is left before the timeout
LoopLeft(e, expect, response) ==
    CASE e = "internet_test" -> Has(response, expect)
      [] e = "waveshare"     -> Has(response, expect) \/ Has(response, "ERROR")
      [] e = "sms_final_fix" ->
            IF expect = "OK" THEN Has(response, "OK")
            ELSE Has(response, ">") \/ Has(response, "ERROR")
      [] OTHER               -> FALSE

\* what the engine hands to its caller: SIM7070GInternetTest a pair
\* (success, text), WaveshareSIM7070G the stripped text, send_at_cmd the
\* text, ModemManager a bare boolean
Returned(e, matched, response) ==
    CASE e = "internet_test" ->
            [shape |-> "pair", tag |-> IF matched THEN "True" ELSE "False",
             text |-> response]
      [] e = "waveshare"     ->
            [shape |-> "text", tag |-> "none", text |-> Strip(response)]
      [] e = "sms_final_fix" ->
            [shape |-> "text", tag |-> "none", text |-> response]
      [] OTHER ->
            [shape |-> "bool",
             tag |-> IF Has(response, "OK") THEN "True"
                     ELSE IF Has(response, "ERROR") THEN "False"
                     ELSE IF response = <<>> THEN "False"
                     ELSE "True",
             text |-> <<>>]

\* what the modem did, as far as the engine has read it: it answered with
\* what was expected, it answered ERROR, or neither
Cause(expect, received) ==
    IF Has(received, expect) THEN "match"
    ELSE IF Has(received, "ERROR") THEN "error"
    ELSE "timeout"

CmdInit ==
    /\ client = "firebase"
    /\ retry_attempts = MaxRetryAttempts
    /\ db = <<>>
    /\ tx = NoTx
    /\ pc = "monitor"
    /\ data = NoData
    /\ batch = <<>>
    /\ k = 0
    /\ outcomes = <<>>
    /\ clock = 0
    /\ acked = {}
    /\ last = NoAttempt
    /\ enqueued = {}
    /\ crashes = 0
    /\ failures = <<>>
    /\ sim = SimReady
    /\ cmd \in {CmdIdle(e) : e \in Engines}
    /\ mm = MmRest
    /\ sms = SmsRest
    /\ ft = FtRest
    /\ hall = HallRest

\* the call returns value r; the text read so far stays for inspection
Return_(c, how, r) == [c EXCEPT !.epc = "returned", !.outcome = how, !.ret = r]

\* a call: the arguments, the check that the port is open (WaveshareSIM7070G
\* returns None, ModemManager False), reset_input_buffer(), write(command)
send_at_command ==
    /\ cmd.epc \in {"idle", "returned"}
    /\ \E t \in 1..MaxTimeout, w \in 1..MaxWait, x \in {"OK", ">"},
          open \in BOOLEAN :
          /\ cmd.engine = "firstTry" => x = "OK"
          /\ cmd.engine \in {"internet_test", "sms_final_fix"} => open
          /\ LET c == [CmdIdle(cmd.engine) EXCEPT
                          !.timeout = t, !.wait = w, !.expect = x]
             IN  cmd' =
                   IF ~open
                   THEN Return_(c, "not_open",
                                IF cmd.engine = "firstTry"
                                THEN [shape |-> "bool", tag |-> "False",
                                      text |-> <<>>]
                                ELSE NoReturn)
                   ELSE [c EXCEPT !.epc =
                            IF cmd.engine \in {"waveshare", "firstTry"}
                            THEN "wait" ELSE "loop"]
    /\ UNCHANGED <<qvars, sim, mm, sms, ft, hall>>

\* the modem sends a token; an ERROR that arrives before any time has
\* passed since the write is an immediate ERROR
channel_delivers ==
    /\ cmd.epc \in {"wait", "loop", "read"}
    /\ cmd.delivered < MaxTokens
    /\ \E tok \in Tokens :
          cmd' = [cmd EXCEPT
                     !.inbuf = Append(@, tok),
                     !.delivered = @ + 1,
                     !.immediate_error =
                         @ \/ (cmd.now = 0 /\ cmd.delivered = 0
                               /\ tok \in ErrorTokens)]
    /\ UNCHANGED <<qvars, sim, mm, sms, ft, hall>>

\* time.sleep(wait_time) of WaveshareSIM7070G, then start_time = time.time();
\* time.sleep(1) of ModemManager
wait_elapsed ==
    /\ cmd.epc = "wait"
    /\ cmd' = IF cmd.engine = "waveshare"
              THEN [cmd EXCEPT !.now = @ + cmd.wait,
                               !.start = cmd.now + cmd.wait, !.epc = "loop"]
              ELSE [cmd EXCEPT !.now = @ + FIRSTTRY_SLEEP, !.epc = "read"]
    /\ UNCHANGED <<qvars, sim, mm, sms, ft, hall>>

\* one turn of "while time.time() - start_time < timeout": read what is
\* waiting, test it, sleep one slice.  SIM7070GInternetTest and send_at_cmd
\* test before the sleep, WaveshareSIM7070G after it
poll ==
    /\ cmd.epc = "loop"
    /\ cmd.now - cmd.start < cmd.timeout
    /\ LET r == Accumulate(cmd.response, cmd.inbuf)
           c == [cmd EXCEPT !.response = r, !.received = @ \o cmd.inbuf,
                            !.inbuf = <<>>]
           left == LoopLeft(cmd.engine, cmd.expect, r)
           matched == Has(r, cmd.expect)
       IN  cmd' =
             IF cmd.engine = "waveshare"
             THEN IF left
                  THEN Return_([c EXCEPT !.now = @ + 1],
                               IF matched THEN "match" ELSE "error",
                               Returned(cmd.engine, matched, r))
                  ELSE [c EXCEPT !.now = @ + 1]
             ELSE IF left
                  THEN Return_(c, IF matched THEN "match" ELSE "error",
                               Returned(cmd.engine, matched, r))
                  ELSE [c EXCEPT !.now = @ + 1]
    /\ UNCHANGED <<qvars, sim, mm, sms, ft, hall>>

\* the loop condition fails: return False, response / return response
loop_timeout ==
    /\ cmd.epc = "loop"
    /\ cmd.now - cmd.start >= cmd.timeout
    /\ cmd' = Return_(cmd, "timeout",
                      Returned(cmd.engine, FALSE, cmd.response))
    /\ UNCHANGED <<qvars, sim, mm, sms, ft, hall>>

\* response = self.ser.read(500) of ModemManager: it blocks for the timeout
\* of the port and returns what has arrived
read_500 ==
    /\ cmd.epc = "read"
    /\ LET r == cmd.inbuf
       IN  cmd' = Return_([cmd EXCEPT !.response = r, !.received = r,
                                      !.inbuf = <<>>,
                                      !.now = @ + FIRSTTRY_PORT_TIMEOUT],
                          IF Has(r, "OK") THEN "match"
                          ELSE IF Has(r, "ERROR") THEN "error"
                          ELSE "timeout",
                          Returned(cmd.engine, Has(r, "OK"), r))
    /\ UNCHANGED <<qvars, sim, mm, sms, ft, hall>>

\* a write or a read raises: SIM7070GInternetTest returns False, str(e),
\* ModemManager False; the other two let the exception through
command_raises ==
    /\ cmd.epc \in {"wait", "loop", "read"}
    /\ cmd' = Return_(cmd, "exception",
                 CASE cmd.engine = "internet_test" ->
                         [shape |-> "pair", tag |-> "False",
                          text |-> <<"str(e)">>]
                   [] cmd.engine = "firstTry" ->
                         [shape |-> "bool", tag |-> "False", text |-> <<>>]
                   [] OTHER -> [NoReturn EXCEPT !.shape = "raised"])
    /\ UNCHANGED <<qvars, sim, mm, sms, ft, hall>>

CmdNext ==
    \/ send_at_command
    \/ channel_delivers
    \/ wait_elapsed
    \/ poll
    \/ loop_timeout
    \/ read_500
    \/ command_raises

CmdSpec == CmdInit /\ [][CmdNext]_vars

(***************************************************************************)
(* ModemManager under concurrent callers.  Each task calls                 *)
(* _send_at_command or send_sms; both run their whole exchange inside      *)
(* "with self.lock:".  mm.lock is the task that holds the lock (0: free),  *)
(* mm.inflight the tasks that have written a command whose answer they     *)
(* have not read yet.                                                      *)
(***************************************************************************)
Tasks == 1..MaxTasks

\* MAX_RETRIES = 3: the attempts of ModemManager.send_sms
MAX_RETRIES == 3

\* variant: the exchange is not guarded, every task enters at once
CanAcquire_NoLock(owner) == TRUE

\* threading.Lock.acquire(): the caller blocks until nobody holds the lock
CanAcquire(owner) == owner = 0

\* the call of task t returns r; leaving the with block releases the lock
Release(m, t, r) ==
    [m EXCEPT !.lock = 0, !.inflight = @ \ {t},
              !.task[t] = [tpc |-> "idle", attempt |-> 0, ret |-> r]]

\* send_sms of task t ends an attempt without success: the next turn of
\* "for attempt in range(MAX_RETRIES)", and "return False" after the last
SmsAttemptFailed(m, t) ==
    IF m.task[t].attempt + 1 < MAX_RETRIES
    THEN [m EXCEPT !.inflight = @ \ {t}, !.task[t].attempt = @ + 1,
                   !.task[t].tpc = "sms_write"]
    ELSE Release(m, t, "False")

\* a task calls _send_at_command or send_sms and reaches "with self.lock:"
mm_call ==
    /\ \E t \in Tasks, op \in {"cmd_acquire", "sms_acquire"} :
          /\ mm.task[t].tpc = "idle"
          /\ mm' = [mm EXCEPT !.task[t] = [TaskIdle EXCEPT !.tpc = op]]
    /\ UNCHANGED <<qvars, sim, cmd, sms, ft, hall>>

\* with self.lock: the task enters the block
mm_acquire ==
    /\ \E t \in Tasks :
          /\ mm.task[t].tpc \in {"cmd_acquire", "sms_acquire"}
          /\ CanAcquire(mm.lock)
          /\ mm' = [mm EXCEPT !.lock = t,
                              !.task[t].tpc =
                                  IF mm.task[t].tpc = "cmd_acquire"
                                  THEN "cmd_write" ELSE "sms_write"]
    /\ UNCHANGED <<qvars, sim, cmd, sms, ft, hall>>

\* _send_at_command: "if not self.ser or not self.ser.is_open: return
\* False"; reset_input_buffer(); self.ser.write(command)
mm_cmd_write ==
    /\ \E t \in Tasks, open \in BOOLEAN :
          /\ mm.task[t].tpc = "cmd_write"
          /\ mm' = IF open
                   THEN [mm EXCEPT !.inflight = @ \cup {t},
                                   !.task[t].tpc = "cmd_read"]
                   ELSE Release(mm, t, "False")
    /\ UNCHANGED <<qvars, sim, cmd, sms, ft, hall>>

\* time.sleep(1); response = self.ser.read(500); the returned boolean
mm_cmd_read ==
    /\ \E t \in Tasks, r \in {<<>>} \cup {<<tok>> : tok \in Tokens} :
          /\ mm.task[t].tpc = "cmd_read"
          /\ mm' = Release(mm, t, Returned("firstTry", Has(r, "OK"), r).tag)
    /\ UNCHANGED <<qvars, sim, cmd, sms, ft, hall>>

\* except Exception as e: return False (the write or the read raised)
mm_cmd_raises ==
    /\ \E t \in Tasks :
          /\ mm.task[t].tpc \in {"cmd_write", "cmd_read"}
          /\ mm' = Release(mm, t, "False")
    /\ UNCHANGED <<qvars, sim, cmd, sms, ft, hall>>

\* send_sms: self.ser.write(AT+CMGS="number")
mm_sms_write ==
    /\ \E t \in Tasks :
          /\ mm.task[t].tpc = "sms_write"
          /\ mm' = [mm EXCEPT !.inflight = @ \cup {t},
                              !.task[t].tpc = "sms_prompt"]
    /\ UNCHANGED <<qvars, sim, cmd, sms, ft, hall>>

\* time.sleep(2); response = self.ser.read(100); if '>' in response: write
\* the message and Ctrl+Z; otherwise the attempt has failed
mm_sms_prompt ==
    /\ \E t \in Tasks, prompt \in BOOLEAN :
          /\ mm.task[t].tpc = "sms_prompt"
          /\ mm' = IF prompt
                   THEN [mm EXCEPT !.task[t].tpc = "sms_result"]
                   ELSE SmsAttemptFailed(mm, t)
    /\ UNCHANGED <<qvars, sim, cmd, sms, ft, hall>>

\* time.sleep(5); response = self.ser.read(200); return True on OK or +CMGS
mm_sms_result ==
    /\ \E t \in Tasks, ok \in BOOLEAN :
          /\ mm.task[t].tpc = "sms_result"
          /\ mm' = IF ok THEN Release(mm, t, "True")
                   ELSE SmsAttemptFailed(mm, t)
    /\ UNCHANGED <<qvars, sim, cmd, sms, ft, hall>>

\* except Exception as e: inside the for loop, so the next attempt follows
mm_sms_raises ==
    /\ \E t \in Tasks :
          /\ mm.task[t].tpc \in {"sms_write", "sms_prompt", "sms_result"}
          /\ mm' = SmsAttemptFailed(mm, t)
    /\ UNCHANGED <<qvars, sim, cmd, sms, ft, hall>>

LockInit ==
    /\ client = "firebase"
    /\ retry_attempts = MaxRetryAttempts
    /\ db = <<>>
    /\ tx = NoTx
    /\ pc = "monitor"
    /\ data = NoData
    /\ batch = <<>>
    /\ k = 0
    /\ outcomes = <<>>
    /\ clock = 0
    /\ acked = {}
    /\ last = NoAttempt
    /\ enqueued = {}
    /\ crashes = 0
    /\ failures = <<>>
    /\ sim = SimReady
    /\ cmd = CmdRest
    /\ mm = MmRest
    /\ sms = SmsRest
    /\ ft = FtRest
    /\ hall = HallRest

LockNext ==
    \/ mm_call
    \/ mm_acquire
    \/ mm_cmd_write
    \/ mm_cmd_read
    \/ mm_cmd_raises
    \/ mm_sms_write
    \/ mm_sms_prompt
    \/ mm_sms_result
    \/ mm_sms_raises

LockSpec == LockInit /\ [][LockNext]_vars

(***************************************************************************)
(* send_sms: one SMS, command by command, in the three programs that check *)
(* the answer to AT+CMGS: Speedometer (production/speedometer.py),         *)
(* SIM7070G_SMS (production/sms_sender.py) and WaveshareSIM7070G           *)
(* (archive/waveshare_sms.py), whose send_sms may hand over to             *)
(* send_sms_alternative (sms.alt).  sms.wire holds the writes of the       *)
(* current attempt; sms.prompt and sms.reply the answers of the modem to   *)
(* the last AT+CMGS and to the message; sms.code the number in the last    *)
(* +CMS ERROR answer.                                                      *)
(***************************************************************************)
SmsPrograms == {"speedometer", "sms_sender", "archive_waveshare"}

\* max_attempts = 3 of Speedometer.send_sms; the other two try once
SMS_ATTEMPTS(p) == IF p = "speedometer" THEN 3 ELSE 1

\* the +CMS ERROR numbers the modem answers with here
CmsCodes == {"310", "314", "316", "332", "500"}

\* cms_errors of print_cms_error_meaning, for these numbers
CmsMeaning(code) ==
    CASE code = "310" -> "SIM not inserted"
      [] code = "314" -> "SIM busy"
      [] code = "316" -> "SIM PUK required"
      [] code = "332" -> "Network timeout"
      [] code = "500" -> "Unknown error"
      [] OTHER        -> "none"

\* send_sms returns r
SmsReturn(s, r) == [s EXCEPT !.spc = "returned", !.ret = r]

\* an attempt ends without "+CMGS": Speedometer sleeps 5 s and starts the
\* next attempt, whatever the reason, and returns False after the last one;
\* the other two return False
SmsFailed(s) ==
    IF s.attempt + 1 < SMS_ATTEMPTS(s.program)
    THEN [s EXCEPT !.attempt = @ + 1, !.spc = "cmgf"]
    ELSE SmsReturn(s, "False")

SmsInit ==
    /\ client = "firebase"
    /\ retry_attempts = MaxRetryAttempts
    /\ db = <<>>
    /\ tx = NoTx
    /\ pc = "monitor"
    /\ data = NoData
    /\ batch = <<>>
    /\ k = 0
    /\ outcomes = <<>>
    /\ clock = 0
    /\ acked = {}
    /\ last = NoAttempt
    /\ enqueued = {}
    /\ crashes = 0
    /\ failures = <<>>
    /\ sim = SimReady
    /\ cmd = CmdRest
    /\ mm = MmRest
    /\ sms \in {SmsIdle(p) : p \in SmsPrograms}
    /\ ft = FtRest
    /\ hall = HallRest

\* send_sms(...) is called
sms_call ==
    /\ sms.spc \in {"idle", "returned"}
    /\ sms' = [SmsIdle(sms.program) EXCEPT !.spc = "cmgf"]
    /\ UNCHANGED <<qvars, sim, cmd, mm, ft, hall>>

\* the start of an attempt.  Speedometer: return False if the port is not
\* open; write AT+CMGF=1, read and drop the answer.  WaveshareSIM7070G:
\* return False unless the answer has OK
sms_text_mode ==
    /\ sms.spc = "cmgf"
    /\ \E ok \in BOOLEAN :
          LET s == [sms EXCEPT !.wire = <<"AT+CMGF=1">>, !.spc = "cmgs"]
          IN  sms' =
                CASE sms.program = "speedometer" ->
                        IF ok THEN s ELSE SmsReturn(sms, "False")
                  [] sms.program = "archive_waveshare" ->
                        IF ok THEN s ELSE SmsReturn(s, "False")
                  [] OTHER -> s
    /\ UNCHANGED <<qvars, sim, cmd, mm, ft, hall>>

\* self.ser.write(AT+CMGS=...)
sms_cmgs ==
    /\ sms.spc = "cmgs"
    /\ sms' = [sms EXCEPT !.wire = Append(@, "AT+CMGS"), !.prompt = "none",
                          !.reply = "none", !.spc = "prompt"]
    /\ UNCHANGED <<qvars, sim, cmd, mm, ft, hall>>

\* the wait for the prompt.  The production programs sleep 3 s, read, and
\* go on only if b'>' in prompt.  WaveshareSIM7070G.send_sms polls for 5 s:
\* '>' goes on; CMS ERROR / CME ERROR returns False; no byte at all for
\* 2.6 s "assumes the module is waiting at prompt" and goes on; any other
\* text ends in send_sms_alternative when the number starts with "+", and
\* in False otherwise.  send_sms_alternative goes on only after '>'
sms_prompt ==
    /\ sms.spc = "prompt"
    /\ \E a \in {">", "none", "echo", "error"}, c \in CmsCodes,
          plus \in BOOLEAN :
          LET s == [sms EXCEPT !.prompt = a,
                               !.code = IF a = "error" THEN c ELSE @]
              go == [s EXCEPT !.spc = "text"]
          IN  sms' =
                IF a = ">" THEN go
                ELSE IF sms.program # "archive_waveshare" THEN SmsFailed(s)
                ELSE IF sms.alt \/ a = "error" THEN SmsReturn(s, "False")
                ELSE IF a = "none" THEN go
                ELSE IF plus THEN [s EXCEPT !.alt = TRUE, !.spc = "cmgs"]
                ELSE SmsReturn(s, "False")
    /\ UNCHANGED <<qvars, sim, cmd, mm, ft, hall>>

\* self.ser.write(message.encode()); self.ser.write(b'\x1A')
sms_text ==
    /\ sms.spc = "text"
    /\ sms' = [sms EXCEPT !.wire = @ \o <<"message", "Ctrl+Z">>,
                          !.spc = "confirm"]
    /\ UNCHANGED <<qvars, sim, cmd, mm, ft, hall>>

\* the read of the confirmation: True on +CMGS; on CMS ERROR the number is
\* printed and the attempt has failed like on any other answer
sms_confirm ==
    /\ sms.spc = "confirm"
    /\ \E r \in {"+CMGS", "error", "other", "none"}, c \in CmsCodes :
          LET s == [sms EXCEPT !.reply = r,
                               !.code = IF r = "error" THEN c ELSE @]
          IN  sms' = IF r = "+CMGS" THEN SmsReturn(s, "True")
                     ELSE SmsFailed(s)
    /\ UNCHANGED <<qvars, sim, cmd, mm, ft, hall>>

\* a write or a read raises: Speedometer catches it inside the loop of
\* attempts, SIM7070G_SMS returns False, WaveshareSIM7070G lets it through
sms_raises ==
    /\ sms.spc \in {"cmgf", "cmgs", "prompt", "text", "confirm"}
    /\ sms' = IF sms.program = "archive_waveshare"
              THEN SmsReturn(sms, "raised")
              ELSE SmsFailed(sms)
    /\ UNCHANGED <<qvars, sim, cmd, mm, ft, hall>>

SmsNext ==
    \/ sms_call
    \/ sms_text_mode
    \/ sms_cmgs
    \/ sms_prompt
    \/ sms_text
    \/ sms_confirm
    \/ sms_raises

SmsSpec == SmsInit /\ [][SmsNext]_vars

(***************************************************************************)
(* main() of firstTry.py: the modem is optional; SMS reports are sent      *)
(* after every sampling interval, failures in a row are counted, and after *)
(* max_consecutive_failures of them the modem is reinitialised.            *)
(***************************************************************************)
\* max_consecutive_failures = 5
MAX_CONSECUTIVE_FAILURES == 5

\* ports_to_try of ModemManager.connect
PortsToTry(serial_port) ==
    <<serial_port, "/dev/ttyS0", "/dev/serial0", "/dev/ttyAMA0">>

\* commands of ModemManager.init_modem
InitCommands == <<"AT", "AT+CMGF=1", "AT+CFUN=1", "AT+CSCS">>

\* consecutive_failures += 1
CountFailure(c) == c + 1

\* "modem.connect() and modem.init_modem()" has its value: at start-up it
\* becomes modem_available; in the reinitialisation branch True resets the
\* counter and False sets modem_available = False
SetupDone(f, ok) ==
    [f EXCEPT !.fpc = "sample", !.recovering = FALSE, !.n = 1, !.port = 1,
              !.modem_available = ok,
              !.consecutive_failures = IF f.recovering /\ ok THEN 0 ELSE @]

FtInit ==
    /\ client = "firebase"
    /\ retry_attempts = MaxRetryAttempts
    /\ db = <<>>
    /\ tx = NoTx
    /\ pc = "monitor"
    /\ data = NoData
    /\ batch = <<>>
    /\ k = 0
    /\ outcomes = <<>>
    /\ clock = 0
    /\ acked = {}
    /\ last = NoAttempt
    /\ enqueued = {}
    /\ crashes = 0
    /\ failures = <<>>
    /\ sim = SimReady
    /\ cmd = CmdRest
    /\ mm = MmRest
    /\ sms = SmsRest
    /\ ft = FtRest
    /\ hall = HallRest

\* one round of "for port in ports_to_try": serial.Serial(port, ...) raises
\* SerialException/OSError (continue); or AT is written and the answer has
\* 'OK' or 'AT' (return True), or not (close, next port); any other
\* exception ends connect with False, as does the end of the list
ft_connect ==
    /\ ft.fpc = "connect"
    /\ \E o \in {"answers", "silent", "no_port", "raises"} :
          LET name == PortsToTry(ft.serial_port)[ft.port]
              f == [ft EXCEPT !.log = @ \o (IF o \in {"answers", "silent"}
                                            THEN <<"open", "AT">>
                                            ELSE <<"open">>)]
          IN  ft' = CASE o = "answers" ->
                           [f EXCEPT !.serial_port = name, !.fpc = "init",
                                     !.n = 1]
                      [] o = "raises" -> SetupDone(f, FALSE)
                      [] OTHER ->
                           IF ft.port < Len(PortsToTry(ft.serial_port))
                           THEN [f EXCEPT !.port = @ + 1]
                           ELSE SetupDone(f, FALSE)
    /\ UNCHANGED <<qvars, sim, cmd, mm, sms, hall>>

\* one round of "for cmd, desc in commands": _send_at_command returns True
\* ('OK', or a non-empty answer without 'ERROR') or False
ft_init_modem ==
    /\ ft.fpc = "init"
    /\ \E ok \in BOOLEAN :
          LET f == [ft EXCEPT !.log = Append(@, InitCommands[ft.n])]
          IN  ft' = IF ~ok THEN SetupDone(f, FALSE)
                    ELSE IF ft.n < Len(InitCommands)
                    THEN [f EXCEPT !.n = @ + 1]
                    ELSE SetupDone(f, TRUE)
    /\ UNCHANGED <<qvars, sim, cmd, mm, sms, hall>>

\* the inner while loop counts pulses for SMS_INTERVAL seconds, then
\* calculate_speed; "if modem_available:" decides whether a report is sent
ft_sample ==
    /\ ft.fpc = "sample"
    /\ ft' = [ft EXCEPT !.fpc = IF ft.modem_available THEN "sms" ELSE "sample",
                        !.n = 1]
    /\ UNCHANGED <<qvars, sim, cmd, mm, sms, hall>>

\* one round of "for attempt in range(MAX_RETRIES)" of send_sms and, when
\* send_sms has returned, the branch of main on its value
ft_send_sms ==
    /\ ft.fpc = "sms"
    /\ \E o \in {"sent", "failed", "raises"} :
          ft' = IF o = "sent"
                THEN [ft EXCEPT !.consecutive_failures = 0, !.fpc = "sample",
                                !.n = 1]
                ELSE IF ft.n < MAX_RETRIES
                THEN [ft EXCEPT !.n = @ + 1]
                ELSE LET c == CountFailure(ft.consecutive_failures)
                     IN  [ft EXCEPT !.consecutive_failures = c, !.n = 1,
                                    !.fpc = IF c >= MAX_CONSECUTIVE_FAILURES
                                            THEN "reinit" ELSE "sample"]
    /\ UNCHANGED <<qvars, sim, cmd, mm, sms, hall>>

\* "Too many consecutive SMS failures. Reinitializing modem...":
\* modem.close(); time.sleep(2); then modem.connect()
ft_reinit ==
    /\ ft.fpc = "reinit"
    /\ ft' = [ft EXCEPT !.fpc = "connect", !.port = 1, !.n = 1,
                        !.recovering = TRUE, !.log = <<"close">>]
    /\ UNCHANGED <<qvars, sim, cmd, mm, sms, hall>>

\* except KeyboardInterrupt / except Exception of main, then finally:
\* GPIO.cleanup(), modem.close()
ft_stop ==
    /\ ft.fpc # "stopped"
    /\ ft' = [ft EXCEPT !.fpc = "stopped", !.log = Append(@, "close")]
    /\ UNCHANGED <<qvars, sim, cmd, mm, sms, hall>>

FtNext ==
    \/ ft_connect
    \/ ft_init_modem
    \/ ft_sample
    \/ ft_send_sms
    \/ ft_reinit
    \/ ft_stop

FtSpec == FtInit /\ [][FtNext]_vars

(***************************************************************************)
(* The hall sensor and the sampling window: check_hall_sensor and          *)
(* monitor_speed of FirebaseClient and CellularDataClient.                 *)
(***************************************************************************)
\* "if time_diff > 0.1": 0.1 s in periods of 10 ms
DEBOUNCE_TICKS == 10

\* wheel_circumference (2.1 m) * 3.6, for a time in periods of 10 ms and a
\* speed in hundredths of a km/h: 2.1 * 3.6 * 100 / 0.01
KPH_TICKS == 75600

\* speed_ms = self.wheel_circumference / time_diff; speed_ms * 3.6
InstantSpeed(time_diff) == KPH_TICKS \div time_diff

\* distance = pulses * self.wheel_circumference;
\* avg_speed = (distance / time_elapsed) * 3.6 if pulses > 0 else 0.0
AvgSpeed(pulses, time_elapsed) ==
    IF pulses > 0 THEN (pulses * KPH_TICKS) \div time_elapsed ELSE 0

\* variant: the window reports the running total of the counter
WindowPulses_Total(h) == h.pulse_count

\* pulses = self.pulse_count - start_count
WindowPulses(h) == h.pulse_count - h.start_count

\* check_hall_sensor with GPIO.input = current_state at time h.now: on a
\* falling edge the speed is updated if the last pulse is more than 0.1 s
\* old, and last_pulse_time and pulse_count are updated in any case
CheckHallSensor(h, current_state) ==
    LET edge == h.last_pin_state = 1 /\ current_state = 0
        time_diff == h.now - h.last_pulse_time
    IN  [h EXCEPT
           !.current_speed =
               IF edge /\ h.last_pulse_time > 0 /\ time_diff > DEBOUNCE_TICKS
               THEN InstantSpeed(time_diff) ELSE @,
           !.last_pulse_time = IF edge THEN h.now ELSE @,
           !.pulse_count = IF edge THEN @ + 1 ELSE @,
           !.edges = IF edge THEN @ + 1 ELSE @,
           !.last_pin_state = current_state]

HallInit ==
    /\ client \in Clients
    /\ retry_attempts = MaxRetryAttempts
    /\ db = <<>>
    /\ tx = NoTx
    /\ pc = "monitor"
    /\ data = NoData
    /\ batch = <<>>
    /\ k = 0
    /\ outcomes = <<>>
    /\ clock = 0
    /\ acked = {}
    /\ last = NoAttempt
    /\ enqueued = {}
    /\ crashes = 0
    /\ failures = <<>>
    /\ sim = SimReady
    /\ cmd = CmdRest
    /\ mm = MmRest
    /\ sms = SmsRest
    /\ ft = FtRest
    /\ hall = HallRest

\* monitor_speed(duration) is called by data_collection_loop ("while
\* self.running"): start_count, start_time, end_time
monitor_speed_start ==
    /\ hall.hpc = "idle"
    /\ hall.running
    /\ \E duration \in 0..MaxDuration :
          hall' = [hall EXCEPT !.hpc = "window",
                               !.start_count = hall.pulse_count,
                               !.start_time = hall.now,
                               !.end_time = hall.now + duration,
                               !.edges = 0]
    /\ UNCHANGED <<qvars, sim, cmd, mm, sms, ft>>

\* one round of "while time.time() < end_time and self.running":
\* self.check_hall_sensor(); time.sleep(0.01)
check_hall_sensor ==
    /\ hall.hpc = "window"
    /\ hall.now < hall.end_time
    /\ hall.running
    /\ \E current_state \in {0, 1}, d \in 1..MaxStep :
          /\ hall.now + d <= MaxNow
          /\ hall' = [CheckHallSensor(hall, current_state)
                        EXCEPT !.now = hall.now + d]
    /\ UNCHANGED <<qvars, sim, cmd, mm, sms, ft>>

\* the loop is left: pulses, time_elapsed, avg_speed and the returned
\* dict; pulses > 0 with time_elapsed = 0 raises ZeroDivisionError
monitor_speed_return ==
    /\ hall.hpc = "window"
    /\ ~(hall.now < hall.end_time /\ hall.running)
    /\ LET pulses == WindowPulses(hall)
           time_elapsed == hall.now - hall.start_time
       IN  hall' = IF pulses > 0 /\ time_elapsed = 0
                   THEN [hall EXCEPT !.hpc = "raised"]
                   ELSE [hall EXCEPT
                           !.hpc = "idle",
                           !.result = [speed |-> AvgSpeed(pulses,
                                                          time_elapsed),
                                       pulse_count |-> pulses,
                                       elapsed |-> time_elapsed]]
    /\ UNCHANGED <<qvars, sim, cmd, mm, sms, ft>>

\* cleanup(): self.running = False (Ctrl+C, or the end of run)
hall_cleanup ==
    /\ hall.running
    /\ hall' = [hall EXCEPT !.running = FALSE]
    /\ UNCHANGED <<qvars, sim, cmd, mm, sms, ft>>

HallNext ==
    \/ monitor_speed_start
    \/ check_hall_sensor
    \/ monitor_speed_return
    \/ hall_cleanup

HallSpec == HallInit /\ [][HallNext]_vars

(***************************************************************************)
(* Status of a queue entry.  The table has no status column: Delivered is  *)
(* sent = TRUE, and an entry is Abandoned when it is unsent and the SELECT *)
(* of the drain no longer returns it.                                      *)
(***************************************************************************)
Delivered(i) == i \in DOMAIN db /\ db[i].sent
Abandoned(i) == i \in DOMAIN db /\ ~db[i].sent /\ i \notin Selected(db, client)
Pending(i) == i \in DOMAIN db /\ i \in Selected(db, client)

DrainPcs == {"sync_row", "sync_update", "sync_commit"}

\* a step that makes a delivery attempt: the immediate send of the loop or
\* the send of a drain step
AttemptStep ==
    \/ pc = "send" /\ pc' \in {"sync_select", "monitor"} /\ last' # NoAttempt
    \/ pc = "sync_row" /\ pc' = "sync_update"

(***************************************************************************)
(* C1  At-least-once delivery: every reading that was successfully         *)
(* enqueued eventually becomes Delivered, or Abandoned with exactly        *)
(* max_delivery_attempts (retry_attempts) failed attempts recorded; it     *)
(* never stays Pending forever.                                            *)
(***************************************************************************)
C1_AtLeastOnce ==
    \A i \in 1..MaxRows :
        (i \in enqueued) ~>
            (Delivered(i) \/ (Abandoned(i) /\ db[i].retry_count = retry_attempts))

(***************************************************************************)
(* C2  No duplication: in a run without a crash, a reading that the        *)
(* collector has acknowledged is never transmitted again.                  *)
(***************************************************************************)
C2_NoDuplication ==
    [][(crashes' = 0 /\ AttemptStep) => last'.row \notin acked]_vars

(***************************************************************************)
(* C3  FIFO drain order: the batch fetched by the drain lists the pending  *)
(* entries in creation order (ascending id), also when entries share a     *)
(* created_at second; deliveries of the drain follow the batch.            *)
(***************************************************************************)
C3_FifoDrainOrder ==
    \A i, j \in DOMAIN batch : i < j => batch[i].id < batch[j].id

(***************************************************************************)
(* C4  Stop at first failure: within one drain a failed delivery is the    *)
(* last attempt of the drain, the entries marked delivered form a prefix   *)
(* of the batch, and the entries after the failed one keep the status and  *)
(* retry_count they were fetched with.                                     *)
(***************************************************************************)
C4_DrainShape ==
    pc \in DrainPcs =>
        /\ Len(outcomes) = (IF pc = "sync_row" THEN k - 1 ELSE k)
        /\ Len(outcomes) <= Len(batch)
        /\ \A j \in DOMAIN outcomes :
              ~outcomes[j] => (j = Len(outcomes) /\ pc # "sync_row")
        /\ \A j \in DOMAIN batch :
              db[batch[j].id].sent => \A i \in 1..j : db[batch[i].id].sent

C4_LaterUntouched ==
    pc \in DrainPcs =>
        \A j \in DOMAIN batch :
            j > Len(outcomes) => db'[batch[j].id] = batch[j]

C4_StopAtFirstFailure == [](C4_DrainShape) /\ [][C4_LaterUntouched]_vars

\* the first row of a batch of two has failed and the drain is about to leave
C4_Witness ==
    /\ pc = "sync_commit"
    /\ Len(batch) >= 2
    /\ outcomes = <<FALSE>>
    /\ tx.op = "retry"

(***************************************************************************)
(* C5  A delivery failure never loses the reading: after a failed attempt  *)
(* (immediate send or drain step) the reading is a row of the table that   *)
(* is not marked sent (Pending, or Abandoned once the ceiling is reached). *)
(***************************************************************************)
C5_FailureKeepsReading ==
    (last.kind # "none" /\ ~last.ok) =>
        (last.row \in DOMAIN db /\ ~db[last.row].sent)

(***************************************************************************)
(* C6  Storage failure is loud: the sampling cycle goes on to the send     *)
(* only with a reading that store_data_locally has persisted.              *)
(***************************************************************************)
C6_StorageFailureLoud == pc = "send" => data.stored

(***************************************************************************)
(* C7  Crash durability of enqueue: every reading for which                *)
(* store_data_locally returned successfully is a committed row of the      *)
(* table, whatever crash follows, and it is unsent as long as no delivery  *)
(* of it was acknowledged.                                                 *)
(***************************************************************************)
C7_CrashDurability ==
    \A r \in enqueued :
        /\ r \in DOMAIN db
        /\ db[r].reading = r
        /\ (db[r].sent => r \in acked)

\* restarted after a crash that hit right after the first enqueue returned
C7_Witness ==
    /\ crashes = 1
    /\ pc = "monitor"
    /\ enqueued = {1}
    /\ acked = {}
    /\ Pending(1)
    /\ db[1].retry_count = 0

(***************************************************************************)
(* C8  For every entry retry_count never decreases, and a Delivered entry  *)
(* stays Delivered; no entry is removed.                                   *)
(***************************************************************************)
C8_Monotone ==
    [][\A i \in DOMAIN db :
          /\ i \in DOMAIN db'
          /\ db'[i].retry_count >= db[i].retry_count
          /\ (db[i].sent => db'[i].sent)]_vars

\* an entry was delivered after failed attempts, and the program goes on
C8_Witness ==
    /\ \E i \in DOMAIN db : db[i].sent /\ db[i].retry_count > 0
    /\ pc = "sync_commit"

(***************************************************************************)
(* C9  The abandonment ceiling is the configured one: an unsent entry is   *)
(* Abandoned (excluded from the drain) exactly when its retry_count        *)
(* exceeds the configured retry_attempts.                                  *)
(***************************************************************************)
C9_ConfiguredCeiling ==
    \A i \in DOMAIN db :
        ~db[i].sent => (Abandoned(i) <=> db[i].retry_count > retry_attempts)

(***************************************************************************)
(* C10  mark_delivered is idempotent: applied to an entry that is already  *)
(* Delivered it changes no row of the table.                               *)
(***************************************************************************)
C10_MarkDeliveredIdempotent ==
    \A i \in DOMAIN db : db[i].sent => MarkDelivered(db, db[i].id) = db

\* an entry was marked delivered after failed attempts, another is pending
C10_Witness ==
    \E i, j \in DOMAIN db :
        /\ db[i].sent /\ db[i].retry_count > 0
        /\ ~db[j].sent

(***************************************************************************)
(* C11: mark_attempt_failed after abandonment is a no-op: applying the     *)
(* UPDATE ... SET retry_count = retry_count + 1 to an entry that is        *)
(* already Abandoned leaves its attempt count and its status unchanged.    *)
(***************************************************************************)
C11_MarkAttemptFailedNoOp ==
    \A i \in DOMAIN db :
        Abandoned(i) => MarkAttemptFailed(db, db[i].id) = db

(***************************************************************************)
(* C12: attempt_count counts failed deliveries only: whenever no attempt   *)
(* is in progress, the retry_count of every entry equals the number of     *)
(* failed delivery attempts made for that reading so far.                  *)
(***************************************************************************)
C12_CountsFailedAttempts ==
    pc = "monitor" =>
        \A i \in DOMAIN db :
            failures[i] < MaxFailures => db[i].retry_count = failures[i]

(***************************************************************************)
(* C13: environmental failures do not consume attempts: after a drain step *)
(* failed for a reason that is not about the reading, no step of the drain *)
(* raises the retry_count of any entry.                                    *)
(***************************************************************************)
C13_EnvironmentalFailureFree ==
    [][(last.kind = "drain" /\ ~last.ok /\ last.cause = "environment")
          => \A i \in DOMAIN db : db'[i].retry_count = db[i].retry_count]_vars

(***************************************************************************)
(* C14: the HTTP context is always terminated: when a delivery attempt     *)
(* that wrote AT+HTTPINIT has returned (with success or with failure),     *)
(* AT+HTTPTERM has been written after the AT+HTTPINIT.                     *)
(***************************************************************************)
C14_HttpAlwaysTerminated ==
    sim.result # "none" => ~HttpOpen(sim.wire)

(***************************************************************************)
(* C15: the session never issues AT+HTTPINIT without a registration poll   *)
(* of this session having answered registered (+CREG stat 1 or 5).         *)
(***************************************************************************)
C15_HttpOnlyWhenRegistered ==
    (\E i \in DOMAIN sim.wire : sim.wire[i] = "AT+HTTPINIT")
        => sim.registered

(***************************************************************************)
(* C16: after the initial power-on the power key is pulsed again only      *)
(* after a session step has failed (the session is Faulted), never from a  *)
(* healthy state; and such a fault is reachable.                           *)
(***************************************************************************)
C16_PowerCycleOnlyFromFaulted ==
    [][sim'.pulses > sim.pulses
          => (sim.pulses = 0 \/ sim.fault # "none")]_vars

\* the modem was power-cycled after a fault, and the new session faulted too
C16_Witness == sim.pulses >= 2 /\ sim.fault # "none"

(***************************************************************************)
(* C17: ERROR short-circuits the wait: when the channel delivers an ERROR  *)
(* token right after the command is written, send_at_command returns       *)
(* within one polling slice, whatever the timeout.                         *)
(***************************************************************************)
C17_ErrorShortCircuits ==
    (/\ cmd.epc = "returned"
     /\ cmd.engine \in {"internet_test", "waveshare"}
     /\ cmd.outcome # "exception"
     /\ cmd.immediate_error)
        => cmd.now <= 1

C19_TimeoutDistinctFromError ==
    (/\ cmd.epc = "returned"
     /\ cmd.outcome \notin {"exception", "not_open"}
     /\ Cause(cmd.expect, cmd.received) = "error")
        => cmd.ret # Returned(cmd.engine, FALSE, <<>>)

(***************************************************************************)
(* C20: the handshake is bounded, and once it is exhausted no later        *)
(* session step is executed: the AT loop never passes its number of        *)
(* attempts, and after exhaustion no command is written until the modem    *)
(* is power-cycled.                                                        *)
(***************************************************************************)
C20_HandshakeBounded ==
    /\ [](sim.mpc = "at" => sim.n < AT_ATTEMPTS(client))
    /\ [][sim.fault = "handshake" => sim'.wire \in {sim.wire, <<>>}]_vars

(***************************************************************************)
(* C28: readings are immutable and retained: an entry of the table exists  *)
(* in every later state with the same id, the same reading and the same    *)
(* created_at; the queue operations change sent and retry_count only.      *)
(***************************************************************************)
C28_ReadingsImmutable ==
    [][\A i \in DOMAIN db :
          /\ i \in DOMAIN db'
          /\ db'[i].id = db[i].id
          /\ db'[i].reading = db[i].reading
          /\ db'[i].created_at = db[i].created_at]_vars

\* two readings are stored; one was delivered, the other has a failed drain
\* step behind it, and both still carry their readings
C28_Witness ==
    /\ Len(db) >= 2
    /\ \E i, j \in DOMAIN db :
          /\ db[i].sent /\ db[i].reading = i
          /\ ~db[j].sent /\ db[j].retry_count > 0 /\ db[j].reading = j

(***************************************************************************)
(* C30: every delivery attempt targets the oldest pending reading: when    *)
(* the immediate send of the loop or a step of the drain transmits a       *)
(* stored reading, no older entry is Pending.                              *)
(***************************************************************************)
C30_AttemptsOldestPending ==
    [][(AttemptStep /\ last'.row # 0)
          => \A i \in DOMAIN db : Pending(i) => last'.row <= i]_vars

(***************************************************************************)
(* C29: success is signalled only by OK.  A call of                        *)
(* ModemManager._send_at_command that returns True has read a response     *)
(* that contains OK; an echo, a prompt, a line of data or white space      *)
(* alone never counts as success.                                          *)
(***************************************************************************)
C29_SuccessOnlyByOK ==
    (cmd.epc = "returned" /\ cmd.ret.shape = "bool" /\ cmd.ret.tag = "True")
        => Has(cmd.received, "OK")

(***************************************************************************)
(* C21: the session goes on to the registration polls only after the SIM   *)
(* answered READY to AT+CPIN?: whenever AT+CREG? has been written since    *)
(* the last power pulse, the last SIM status answer is READY.              *)
(***************************************************************************)
C21_AdvancesOnlyOnReady ==
    (\E i \in DOMAIN sim.wire : sim.wire[i] = "AT+CREG?")
        => sim.cpin = "READY"

(***************************************************************************)
(* C22: a registration denied answer ends the registration wait at once,   *)
(* and a wait that ends without a registered answer ends in a failure      *)
(* (init_sim_module / initialize_module does not return True).             *)
(***************************************************************************)
C22_RegistrationWaitFails ==
    [][/\ (sim.mpc \in {"creg", "netreg"} /\ sim'.creg = "denied")
             => sim'.mpc \notin {"creg", "netreg"}
       /\ (sim.mpc = "creg" /\ sim'.mpc # "creg" /\ ~sim'.registered)
             => sim'.mpc \notin {"idle", "initialized"}]_vars

(***************************************************************************)
(* C23: when the serial port is closed after a shutdown signal, no HTTP    *)
(* context is left open: every AT+HTTPINIT written in the interrupted      *)
(* attempt was followed by AT+HTTPTERM.                                    *)
(***************************************************************************)
C23_AbortTerminatesHttp ==
    sim.mpc = "closed" => ~HttpOpen(sim.wire)

(***************************************************************************)
(* C24: at most one command is in flight on the modem channel: no two      *)
(* tasks have both written a command whose answer is still unread, and a   *)
(* task that is inside an exchange holds the lock.                         *)
(***************************************************************************)
C24_OneCommandInFlight ==
    /\ Cardinality(mm.inflight) <= 1
    /\ \A t \in Tasks :
          mm.task[t].tpc \notin {"idle", "cmd_acquire", "sms_acquire"}
              => mm.lock = t

\* one task is between the write of its command and the read of the answer
\* while another task waits for the lock
C24_Witness ==
    \E t, u \in Tasks :
        /\ t # u
        /\ t \in mm.inflight
        /\ mm.task[u].tpc \in {"cmd_acquire", "sms_acquire"}

(***************************************************************************)
(* C26: a numeric +CMS ERROR answer is handled by the kind of its code:    *)
(* after a fatal code (SIM not inserted, SIM PUK required) the send is     *)
(* abandoned, not retried; after a transient code (SIM busy, network       *)
(* timeout) it is tried again while attempts are left.                     *)
(***************************************************************************)
C26_ErrorsClassified ==
    [][((sms.spc = "prompt" /\ sms'.prompt = "error")
           \/ (sms.spc = "confirm" /\ sms'.reply = "error"))
        => /\ CmsMeaning(sms'.code) \in {"SIM not inserted", "SIM PUK required"}
                 => sms'.spc = "returned"
           /\ (/\ CmsMeaning(sms'.code) \in {"SIM busy", "Network timeout"}
               /\ sms.attempt + 1 < SMS_ATTEMPTS(sms.program))
                 => sms'.spc = "cmgf"]_vars

(***************************************************************************)
(* C27: the SMS text is written only after the prompt '>' was received in  *)
(* answer to the AT+CMGS of this attempt.                                  *)
(***************************************************************************)
C27_PromptNeverAssumed ==
    sms.spc \in {"text", "confirm"} => sms.prompt = ">"

(***************************************************************************)
(* C35: when the drain is about to send entry k of its batch, nothing is   *)
(* left uncommitted and every entry before k is committed as sent; and a   *)
(* crash changes no committed row.                                         *)
(***************************************************************************)
C35_EarlierEntriesCommitted ==
    (pc = "sync_row" /\ k \in DOMAIN batch) =>
        /\ tx = NoTx
        /\ \A j \in 1..(k - 1) : outcomes[j] /\ db[batch[j].id].sent

C35_CrashKeepsCommitted ==
    crashes' > crashes => db' = db

C35_RecordedBeforeNext ==
    [](C35_EarlierEntriesCommitted) /\ [][C35_CrashKeepsCommitted]_vars

\* the first entry of the batch is committed as sent and the second is next;
\* the process has crashed before
C35_Witness ==
    /\ pc = "sync_row"
    /\ k = 2
    /\ k \in DOMAIN batch
    /\ db[batch[1].id].sent
    /\ crashes > 0

(***************************************************************************)
(* C36: the list one drain fetches and works through is never longer than  *)
(* the limit, however many entries are pending.                            *)
(***************************************************************************)
C36_BatchBounded ==
    /\ Len(batch) <= BATCH_LIMIT
    /\ pc \in DrainPcs => k <= BATCH_LIMIT + 1

(***************************************************************************)
(* C34: when reading 1 is pending ahead of reading 2 and fails on every    *)
(* attempt while every other reading is accepted, then eventually the      *)
(* drain no longer selects reading 1 and reading 2 is marked delivered.    *)
(***************************************************************************)
C34_HeadBlocks ==
    /\ Len(db) = 2
    /\ ~db[1].sent
    /\ ~db[2].sent
    /\ db[1].created_at < db[2].created_at

\* FirebaseClient alone, whose query has the retry_count ceiling
C34_FirebaseUnblocks ==
    (client = "firebase" /\ C34_HeadBlocks) ~>
        (1 \notin Selected(db, client) /\ 2 \in DOMAIN db /\ db[2].sent)

C34_NoHeadOfLineBlocking ==
    C34_HeadBlocks ~>
        (1 \notin Selected(db, client) /\ 2 \in DOMAIN db /\ db[2].sent)

(***************************************************************************)
(* C31: the commands of one delivery attempt reach the modem in the order  *)
(* AT+HTTPINIT, settings, AT+HTTPDATA, payload, AT+HTTPACTION,             *)
(* AT+HTTPTERM; and a delivery attempt never writes AT+HTTPINIT while the  *)
(* HTTP context of the attempt before it is still open.                    *)
(***************************************************************************)
C31_Rank(c) ==
    CASE c = "AT+HTTPINIT"     -> 1
      [] c = "AT+HTTPDATA"     -> 3
      [] c = "payload"         -> 4
      [] c = "AT+HTTPACTION=1" -> 5
      [] c = "AT+HTTPTERM"     -> 6
      [] OTHER                 -> 2

C31_InOrder ==
    (client \in Clients /\ sim.wire # <<>> /\ sim.wire[1] = "AT+HTTPINIT") =>
        \A i, j \in DOMAIN sim.wire :
            i < j =>
                /\ C31_Rank(sim.wire[i]) <= C31_Rank(sim.wire[j])
                /\ C31_Rank(sim.wire[i]) = C31_Rank(sim.wire[j])
                      => C31_Rank(sim.wire[i]) = 2

C31_InitOnClosedContext ==
    (client \in Clients /\ sim.mpc = "idle" /\ sim'.mpc = "http_setup")
        => ~HttpOpen(sim.wire)

C31_HttpStepsSequential ==
    [](C31_InOrder) /\ [][C31_InitOnClosedContext]_vars

(***************************************************************************)
(* C32: the text on which a step of a delivery attempt decides (DOWNLOAD   *)
(* after AT+HTTPDATA, the status after AT+HTTPACTION) contains nothing     *)
(* that was already pending in the input buffer when the step's command    *)
(* was written.                                                            *)
(***************************************************************************)
C32_NoStaleInput ==
    client \in Clients => sim.stale = {}

(***************************************************************************)
(* C33: a delivery attempt returns True, on which sync_buffered_data marks *)
(* the entry sent, only if the POST of this attempt produced a success     *)
(* status (200, or 201 for FirebaseClient); a status line of an earlier    *)
(* attempt never makes an attempt succeed.                                 *)
(***************************************************************************)
C33_AckOfThisReading ==
    (client \in Clients /\ sim.result = "ok") => HttpOk(client, sim.reply)

(***************************************************************************)
(* C37: the consecutive-failure counter is set to 0 by every successful    *)
(* send and incremented by every failed one; it never exceeds 5; when it   *)
(* is 5 the modem is being reinitialised or is no longer used; and the     *)
(* reinitialisation that follows the fifth failure power-cycles the modem  *)
(* and ends with the counter at 0 or with the modem no longer used.        *)
(***************************************************************************)
C37_SendReturned ==
    ft.fpc = "sms" /\ ft'.fpc \in {"sample", "reinit"}

C37_CounterFollowsSends ==
    C37_SendReturned =>
        \/ ft'.consecutive_failures = 0
        \/ ft'.consecutive_failures = ft.consecutive_failures + 1

C37_CounterBounded ==
    /\ ft.consecutive_failures \in 0..MAX_CONSECUTIVE_FAILURES
    /\ ft.consecutive_failures = MAX_CONSECUTIVE_FAILURES
          => (ft.fpc \in {"reinit", "connect", "init", "stopped"}
              \/ ~ft.modem_available)

C37_RecoveryEnds ==
    (ft.recovering /\ ft'.fpc = "sample") =>
        /\ ft'.consecutive_failures = 0 \/ ~ft'.modem_available
        /\ \E i \in DOMAIN ft'.log : ft'.log[i] = "power_cycle"

\* the counter part alone
C37_Counter ==
    [](C37_CounterBounded) /\ [][C37_CounterFollowsSends]_vars

C37_FiveFailuresRecover ==
    /\ [](C37_CounterBounded)
    /\ [][C37_CounterFollowsSends]_vars
    /\ [][C37_RecoveryEnds]_vars

(***************************************************************************)
(* C38: a falling edge less than 100 ms after the previous pulse is        *)
(* ignored: a step that increments pulse_count or changes the speed is     *)
(* the first pulse or comes at least 100 ms after the pulse before it.     *)
(***************************************************************************)
C38_PulseTaken ==
    \/ hall'.pulse_count > hall.pulse_count
    \/ hall'.current_speed # hall.current_speed

C38_Debounce ==
    [][C38_PulseTaken =>
          \/ hall.last_pulse_time = 0
          \/ hall.now - hall.last_pulse_time >= DEBOUNCE_TICKS]_vars

(***************************************************************************)
(* C39: a sampling window that saw count falling edges over elapsed time   *)
(* reports pulse_count = count and, for count > 0, the speed               *)
(* count * 2.1 / elapsed * 3.6 (here: the integer part of it in hundredths *)
(* of a km/h), for count = 0 the speed 0; neither is negative; 15 pulses   *)
(* in 30 s give 3.78 km/h.                                                 *)
(***************************************************************************)
C39_Reported == hall.hpc = "idle" /\ hall.result # NoReading

C39_WindowSpeed ==
    /\ AvgSpeed(15, 3000) = 378
    /\ C39_Reported =>
          /\ hall.result.pulse_count = hall.edges
          /\ hall.result.elapsed = hall.now - hall.start_time
          /\ hall.result.pulse_count >= 0
          /\ hall.result.speed >= 0
          /\ hall.edges = 0 => hall.result.speed = 0
          /\ hall.edges > 0 =>
                /\ hall.result.elapsed > 0
                /\ hall.result.speed * hall.result.elapsed
                      <= hall.edges * 21 * 36 * 100
                /\ hall.edges * 21 * 36 * 100
                      < (hall.result.speed + 1) * hall.result.elapsed

\* a second window has reported, with pulses of its own after pulses of an
\* earlier window
C39_Witness ==
    /\ C39_Reported
    /\ hall.start_count > 0
    /\ hall.result.pulse_count > 0
    /\ hall.result.speed > 0

=============================================================================
